---- MODULE Spec2Model ----
(***************************************************************************)
(* Model of the agent orchestration loop of claude_clone                   *)
(* (core/agent.py), with the collaborators it composes: the interrupt      *)
(* controller (core/interrupt.py), the plan manager (core/plan.py), the    *)
(* permission mode manager (config.py), the context manager                *)
(* (core/context.py) and the tool registry (tools/registry.py).            *)
(*                                                                         *)
(* Text is modelled as a sequence of fragments (tokens); a path as the     *)
(* sequence of its components, <<>> being the root directory.              *)
(***************************************************************************)
EXTENDS Integers, Sequences, FiniteSets, TLC

(***************************************************************************)
(* Bounds of the model                                                     *)
(***************************************************************************)
\* number of user turns in one session
MaxTurns == 2
\* number of requests of a turn that the language model answers freely; to
\* each later one it repeats its previous response or gives a last one
MaxVaried == 1
\* longest conversation on which a further turn is started
MaxHistory == 3
\* number of steps of a plan
MaxSteps == 2
\* number of components of a directory path
MaxDepth == 2
\* number of directories approved in one session
MaxApproved == 3
\* fragments of a text handed to extract_json_tool_call
MaxText == 3
\* characters of a text handed to find_balanced_json
MaxChars == 7
\* token counts and context window sizes handed to should_summarize
MaxUsed == 120
\* keep_recent values handed to summarize_conversation
MaxKeep == 4
\* messages of a conversation handed to summarize_conversation
MaxMessages == 12
\* longest conversation on which a turn answered in cut-up texts is started
MaxRendered == 1

(***************************************************************************)
(* Program constants                                                       *)
(***************************************************************************)
\* agent.py: max_iterations = 10
max_iterations == 10
\* context.py: keep_recent: int = 4
keep_recent == 4

\* interrupt.py: InterruptType
NONE == "none"
SOFT == "soft"
HARD == "hard"
InterruptType == {NONE, SOFT, HARD}

\* plan.py: PlanStatus
DRAFTING == "drafting"
PENDING_APPROVAL == "pending_approval"
APPROVED == "approved"
EXECUTING == "executing"
COMPLETED == "completed"
REJECTED == "rejected"
PlanStatus == {DRAFTING, PENDING_APPROVAL, APPROVED, EXECUTING, COMPLETED, REJECTED}

\* config.py: PermissionMode and PermissionModeManager._MODES
NORMAL == "normal"
AUTO_ACCEPT == "auto_accept"
PLAN_MODE == "plan_mode"
PermissionMode == {NORMAL, AUTO_ACCEPT, PLAN_MODE}
_MODES == <<NORMAL, AUTO_ACCEPT, PLAN_MODE>>

\* plan.py: PlanManager.READONLY_TOOLS
READONLY_TOOLS ==
  {"read_file", "grep", "glob", "git_status", "git_diff", "git_log",
   "git_branch", "web_search", "web_fetch", "todo_write", "create_plan"}

\* registry.py: the tools registered by register_default_tools
RegisteredTools ==
  {"read_file", "write_file", "edit_file", "grep", "glob", "bash",
   "git_status", "git_diff", "git_commit", "git_log", "git_branch",
   "web_search", "web_fetch", "todo_write", "create_plan"}

\* tool names the model uses in queries: the registered ones and an unknown one
ToolNames == RegisteredTools \cup {"any_tool"}

\* agent.py: safe_commands of _requires_confirmation
safe_commands ==
  {"ls", "cat", "head", "tail", "grep", "find", "pwd", "echo", "which",
   "type", "file", "wc", "du", "df", "date", "whoami", "uname", "env",
   "printenv", "test", "["}

\* Settings.confirm_writes / confirm_commands (defaults)
confirm_writes == TRUE
confirm_commands == TRUE

(***************************************************************************)
(* Paths                                                                   *)
(***************************************************************************)
\* the process working directory
Cwd == <<"w">>
\* an argument that is not given ('' in the code)
NoArg == <<>>

\* Path.parent
Parent(p) == IF Len(p) = 0 THEN p ELSE SubSeq(p, 1, Len(p) - 1)

\* a test that also accepts the ancestors of an approved directory
IsRelativeTo_either(d, a) ==
  \/ (Len(a) <= Len(d) /\ SubSeq(d, 1, Len(a)) = a)
  \/ (Len(d) <= Len(a) /\ SubSeq(a, 1, Len(d)) = d)

\* dir_path.relative_to(approved_path) succeeds
IsRelativeTo(d, a) == Len(a) <= Len(d) /\ SubSeq(d, 1, Len(a)) = a

\* files that exist in the environment of the model
ExistingFiles == {<<"a", "f">>, <<"a", "b", "g">>}

(***************************************************************************)
(* Tool calls, chunks and messages                                         *)
(***************************************************************************)
\* the arguments of a tool call: the keys the loop and the tools look at; a
\* command is the sequence of its whitespace-separated tokens; todos is the
\* one item of a todo list, a dict given by its keys in the order the model
\* wrote them (each key has one value throughout)
NoArgs ==
  [path |-> NoArg, cwd |-> NoArg, working_directory |-> NoArg,
   command |-> <<>>, steps |-> 0, todos |-> <<>>]

\* ToolCall(name, arguments)
ToolCall(n, a) == [name |-> n, arguments |-> a]
NoCall == ToolCall("", NoArgs)

ReadCall == ToolCall("read_file", [NoArgs EXCEPT !.path = <<"a", "f">>])
ReadMissing == ToolCall("read_file", [NoArgs EXCEPT !.path = <<"a", "x">>])
WriteCall == ToolCall("write_file", [NoArgs EXCEPT !.path = <<"a", "f">>])
WriteSub == ToolCall("write_file", [NoArgs EXCEPT !.path = <<"a", "b", "g">>])
BashLs == ToolCall("bash", [NoArgs EXCEPT !.command = <<"ls">>])
BashRm == ToolCall("bash", [NoArgs EXCEPT !.command = <<"rm">>])
\* a read-only command chained with another one
BashChain == ToolCall("bash", [NoArgs EXCEPT !.command = <<"ls", ";", "rm", "x">>])
\* a command with the working directory the tool's schema names
BashThere ==
  ToolCall("bash", [NoArgs EXCEPT !.command = <<"rm", "x">>,
                                  !.working_directory = <<"a", "b">>])
PlanCall == ToolCall("create_plan", [NoArgs EXCEPT !.steps = 1])
PlanEmpty == ToolCall("create_plan", NoArgs)
UnknownCall == ToolCall("any_tool", NoArgs)
\* todo_write with one item, its keys written in one order or the other
TodoCall == ToolCall("todo_write", [NoArgs EXCEPT !.todos = <<"content", "status">>])
TodoSwapped == ToolCall("todo_write", [NoArgs EXCEPT !.todos = <<"status", "content">>])

\* a fragment of text: its kind, and the tool call it spells (if any)
\*   txt    prose without braces
\*   open   {"name": N, "arguments": {...      (the object is not closed)
\*   close  }}                                 (closes an open)
\*   obj    {"name": N, "arguments": {...}}    (a complete object)
\*   rep    the same complete object three times over, more than 500
\*          characters in all
\*   curly  {}                                 (a short JSON object)
\*   err    Error: <the provider's message>    (prose without braces)
\*   bad    {"name": N, "arguments": {...,}}   (balanced braces, but no JSON:
\*          json.loads fails; more than 100 characters)
\*   ws     whitespace
\*   fn     N {...}                            (a tool name, then its arguments
\*          as a complete JSON object)
\*   lead   {"na                               (the first characters of an object)
\*   tail   me": N, "arguments": {...}}        (what completes a lead just before
\*          it to a complete object)
Tok(k, c) == [k |-> k, c |-> c]
Txt == Tok("txt", NoCall)
Close == Tok("close", NoCall)
Curly == Tok("curly", NoCall)
Ws == Tok("ws", NoCall)

\* len() of a fragment
TokLen(t) ==
  CASE t.k = "txt" -> 120
    [] t.k = "open" -> 45
    [] t.k = "close" -> 2
    [] t.k = "obj" -> 47
    [] t.k = "rep" -> 600
    [] t.k = "curly" -> 2
    [] t.k = "err" -> 30
    [] t.k = "bad" -> 130
    [] t.k = "ws" -> 1
    [] t.k = "fn" -> 40
    [] t.k = "lead" -> 4
    [] t.k = "tail" -> 43
    [] t.k = "long_input" -> 60000
    [] OTHER -> 10

\* ChatChunk(content, tool_calls)
ChatChunk(content, tcs) == [content |-> content, tool_calls |-> tcs]

\* Message(role, content, tool_calls)
Message(role, content, tcs) == [role |-> role, content |-> content, tool_calls |-> tcs]
Note(role, tag) == Message(role, <<Tok(tag, NoCall)>>, <<>>)

SystemMsg == Note("system", "system_prompt")
UserMsg == Note("user", "user_input")
\* a user message of some 15000 tokens (a pasted file)
LongUserMsg == Note("user", "long_input")
CorrectiveMsg == Note("user", "incomplete_or_truncated")
BlockedMsg == Note("tool", "not_allowed_in_plan_mode")
DeclinedMsg == Note("tool", "user_declined")
OutputMsg == Note("tool", "output")
ErrorMsg == Note("tool", "Error: ")
SummaryMsg == Note("system", "summary")

(***************************************************************************)
(* State                                                                   *)
(***************************************************************************)
VARIABLES
  \* InterruptController
  _interrupt_type,      \* the tri-state flag
  access,               \* the latest access to the flag: who, and under the lock or not
  \* PlanManager
  plan_mode_active,
  current_plan,
  created_plan,         \* the Plan object the latest create_plan returned, as its holder sees it
  ret,                  \* the latest PlanManager call that returned a value
  \* PermissionModeManager
  _current,
  \* Agent
  messages,
  approved_directories,
  \* Agent.process_message: position and locals
  pc,                   \* "idle", "loop", "stream", "tools" or "exec"
  iteration,
  interrupted,
  stream,               \* chunks of the response in flight that are still to come
  response_content,
  tool_calls,
  streaming_started,
  streamed,             \* per fragment accumulated: it was passed to stream_chunk
  looks_like_tool_call,
  repetition_detected,
  queue,                \* tool calls of this iteration that are still to be handled
  \* the language model
  llm,                  \* the response it gave to the latest request of the turn
  \* observations of the current turn
  turn,                 \* number of the turn
  turn_start,           \* Len(messages) when the turn began
  wiped,                \* the clear of this turn found the flag set
  requests,             \* model requests issued by the loop
  consumed,             \* fragments accumulated
  executed,             \* tool executions started
  prompts,              \* confirmation prompts issued
  poll,                 \* what the latest poll of the interrupt flag read
  stopped,              \* some poll of this turn read a value other than NONE
  warned,               \* the cap-reached warning was printed
  outcome,              \* how the turn ended
  \* a function of the program called on its own
  called,               \* the function and the arguments of the latest call
  returned              \* what the call returned

interruptVars == <<_interrupt_type, access>>
planVars == <<plan_mode_active, current_plan, created_plan, ret>>
localVars == <<iteration, interrupted, stream, response_content, tool_calls,
               streaming_started, streamed, looks_like_tool_call, repetition_detected,
               queue>>
llmVars == <<llm>>
obsVars == <<turn, turn_start, wiped, requests, consumed, executed, prompts, poll,
             stopped, warned, outcome>>
agentVars == <<messages, approved_directories, pc>>
callVars == <<called, returned>>
vars == <<interruptVars, planVars, _current, agentVars, localVars, llmVars, obsVars,
          callVars>>

(***************************************************************************)
(* InterruptController (core/interrupt.py)                                 *)
(***************************************************************************)
Access(task, op, locked) == [task |-> task, op |-> op, locked |-> locked]

\* async signal_interrupt(interrupt_type): async with self._lock
signal_interrupt(t) ==
  /\ _interrupt_type' = t
  /\ access' = Access("ui", "write", TRUE)

\* async check_interrupted(): async with self._lock; the value it returns
check_interrupted == _interrupt_type

\* a clear that leaves the flag as it is
clear_keep ==
  /\ _interrupt_type' = _interrupt_type
  /\ access' = Access("agent", "write", TRUE)

\* async clear(): async with self._lock
clear ==
  /\ _interrupt_type' = NONE
  /\ access' = Access("agent", "write", TRUE)

\* signal_interrupt_sync(interrupt_type = SOFT): no lock
signal_interrupt_sync(t) ==
  /\ _interrupt_type' = t
  /\ access' = Access("ui", "write", FALSE)

(***************************************************************************)
(* PlanManager (core/plan.py)                                              *)
(***************************************************************************)
NoPlan == [goal |-> "", steps |-> <<>>, status |-> "none"]

\* PlanStep(description, files_affected, status = "pending")
PlanStep(d) == [description |-> d, status |-> "pending"]

\* the step dictionaries of a create_plan call: n steps with a description
StepDicts(n) == [i \in 1..n |-> "step"]

\* Plan(goal, steps, status)
Plan(goal, steps, status) == [goal |-> goal, steps |-> steps, status |-> status]

Ret(op, arg, value) == [op |-> op, arg |-> arg, value |-> value]

\* a gate that lets every tool through
is_tool_allowed_in_always(active, plan, tool_name) == TRUE

\* a gate that opens as soon as a plan exists
is_tool_allowed_in_needs_plan(active, plan, tool_name) ==
  IF ~active THEN TRUE ELSE tool_name \in READONLY_TOOLS \/ plan # NoPlan

\* PlanManager.is_tool_allowed, as a function of the manager's state
is_tool_allowed_in(active, plan, tool_name) ==
  IF ~active THEN TRUE ELSE tool_name \in READONLY_TOOLS

is_tool_allowed(tool_name) ==
  is_tool_allowed_in(plan_mode_active, current_plan, tool_name)

\* a create_plan that leaves the status of the plan at the default of the
\* Plan dataclass
create_plan_drafting(goal, steps) ==
  Plan(goal, [i \in 1..Len(steps) |-> PlanStep(steps[i])], DRAFTING)

\* a create_plan that stores the steps last to first
create_plan_reversed(goal, steps) ==
  Plan(goal, [i \in 1..Len(steps) |-> PlanStep(steps[Len(steps) + 1 - i])],
       PENDING_APPROVAL)

\* PlanManager.create_plan: the plan it installs
create_plan(goal, steps) ==
  Plan(goal, [i \in 1..Len(steps) |-> PlanStep(steps[i])], PENDING_APPROVAL)

\* an approval that leaves plan mode on
approve_plan_in_keeps_mode(active, plan) ==
  IF plan # NoPlan
    THEN [plan |-> [plan EXCEPT !.status = APPROVED], active |-> active, value |-> TRUE]
    ELSE [plan |-> plan, active |-> active, value |-> FALSE]

\* PlanManager.approve_plan: the plan, the plan-mode flag and the result after it
approve_plan_in(active, plan) ==
  IF plan # NoPlan
    THEN [plan |-> [plan EXCEPT !.status = APPROVED], active |-> FALSE, value |-> TRUE]
    ELSE [plan |-> plan, active |-> active, value |-> FALSE]

\* a rejection that keeps the plan as the current one
reject_plan_in_keeps_plan(active, plan) ==
  IF plan # NoPlan
    THEN [plan |-> [plan EXCEPT !.status = REJECTED],
          rejected |-> [plan EXCEPT !.status = REJECTED],
          active |-> FALSE, value |-> TRUE]
    ELSE [plan |-> plan, rejected |-> plan, active |-> active, value |-> FALSE]

\* PlanManager.reject_plan: the plan, the plan-mode flag and the result after it
reject_plan_in(active, plan) ==
  IF plan # NoPlan
    THEN [plan |-> NoPlan, rejected |-> [plan EXCEPT !.status = REJECTED],
          active |-> FALSE, value |-> TRUE]
    ELSE [plan |-> plan, rejected |-> plan, active |-> active, value |-> FALSE]

(***************************************************************************)
(* PermissionModeManager (config.py)                                       *)
(***************************************************************************)
\* _MODES.index(mode)
ModeIndex(m) == CHOOSE i \in 1..Len(_MODES) : _MODES[i] = m

\* PermissionModeManager.cycle: the next mode
cycle(m) == _MODES[(ModeIndex(m) % Len(_MODES)) + 1]

(***************************************************************************)
(* Text tests of the loop and extract_json_tool_call                       *)
(***************************************************************************)
RECURSIVE StrLen(_)
\* len(stripped)
StrLen(s) == IF s = <<>> THEN 0 ELSE TokLen(Head(s)) + StrLen(Tail(s))

\* stripped.startswith("{")
StartsWithBrace(s) ==
  s # <<>> /\ s[1].k \in {"open", "obj", "rep", "curly", "bad", "lead"}

\* stripped.endswith("}")
EndsWithBrace(s) ==
  s # <<>> /\ s[Len(s)].k \in {"close", "obj", "rep", "curly", "bad", "tail"}

\* a lead and the tail that follows it spell {"name": between them
Joined(s, i) == i < Len(s) /\ s[i].k = "lead" /\ s[i + 1].k = "tail"

\* '"name"' in stripped or '"name' in stripped or 'name":' in stripped
\* (lines 129-131, 324-326); '{"name":' in stripped (line 137)
HasNameKey(s) ==
  \E i \in 1..Len(s) : s[i].k \in {"open", "obj", "rep", "bad"} \/ Joined(s, i)

\* '"arguments"' in stripped (line 132)
HasArgumentsKey(s) ==
  \E i \in 1..Len(s) : s[i].k \in {"open", "obj", "rep", "bad", "tail"}

\* '<|im_start|>' in stripped or '<|im_end|>' in stripped
HasControlToken(s) == \E i \in 1..Len(s) : s[i].k = "ctl"

RECURSIVE NameCount(_)
\* stripped.count('{"name":')
NameCount(s) ==
  IF s = <<>> THEN 0
  ELSE (CASE Head(s).k \in {"open", "obj", "bad"} -> 1
          [] Head(s).k = "rep" -> 3
          [] Joined(s, 1) -> 1
          [] OTHER -> 0) + NameCount(Tail(s))

RECURSIVE ArgumentsCount(_)
\* stripped.count('"arguments"')
ArgumentsCount(s) ==
  IF s = <<>> THEN 0
  ELSE (CASE Head(s).k \in {"open", "obj", "bad", "tail"} -> 1
          [] Head(s).k = "rep" -> 3
          [] OTHER -> 0) + ArgumentsCount(Tail(s))

\* the classification of the accumulating text (agent.py 122-138)
LooksLikeToolCall(s, before) ==
  IF HasControlToken(s) THEN TRUE
  ELSE IF StartsWithBrace(s)
    THEN (IF HasNameKey(s) \/ HasArgumentsKey(s) THEN TRUE
          ELSE IF StrLen(s) < 80 THEN TRUE ELSE before)
  ELSE IF HasNameKey(s) THEN TRUE
  ELSE before

\* the repetition test (agent.py 142-149)
RepetitionDetected(s) ==
  StrLen(s) > 500 /\ (NameCount(s) > 2 \/ ArgumentsCount(s) > 2)

\* is_truncated_json (agent.py 322-329)
is_truncated_json(s) == StartsWithBrace(s) /\ HasNameKey(s) /\ ~EndsWithBrace(s)

\* is_very_short (agent.py 332)
is_very_short(s) == StrLen(s) < 100 /\ StartsWithBrace(s)

\* find_balanced_json reads a text character by character. The characters
\* that matter to it: the braces, "q" for the double quote, "b" for the
\* backslash, "x" for any other character (the brackets it counts have no
\* effect on what it returns). Positions count from 1.
Chars == {"{", "}", "q", "b", "x"}

\* return None, -1 (lines 41, 78)
NoJson == [found |-> FALSE, json_str |-> <<>>, end_idx |-> -1]

\* a scan in which a backslash escapes nothing
escapes_never(char, in_string) == FALSE

\* char == '\\' and in_string (line 57)
escapes(char, in_string) == char = "b" /\ in_string

RECURSIVE ScanFrom(_, _, _, _, _, _)
\* the while loop of find_balanced_json (lines 49-76)
ScanFrom(text, start_idx, j, brace_count, in_string, escape_next) ==
  IF j > Len(text) THEN NoJson
  ELSE LET char == text[j]
       IN IF escape_next
            THEN ScanFrom(text, start_idx, j + 1, brace_count, in_string, FALSE)
          ELSE IF escapes(char, in_string)
            THEN ScanFrom(text, start_idx, j + 1, brace_count, in_string, TRUE)
          ELSE IF char = "q"
            THEN ScanFrom(text, start_idx, j + 1, brace_count, ~in_string, FALSE)
          ELSE IF ~in_string /\ char = "{"
            THEN ScanFrom(text, start_idx, j + 1, brace_count + 1, in_string, FALSE)
          ELSE IF ~in_string /\ char = "}"
            THEN (IF brace_count - 1 = 0
                    THEN [found |-> TRUE, json_str |-> SubSeq(text, start_idx, j),
                          end_idx |-> j + 1]
                    ELSE ScanFrom(text, start_idx, j + 1, brace_count - 1, in_string,
                                  FALSE))
          ELSE ScanFrom(text, start_idx, j + 1, brace_count, in_string, FALSE)

\* find_balanced_json(text, start_idx): (json_str, end_idx) or (None, -1)
find_balanced_json(text, start_idx) ==
  IF start_idx > Len(text) \/ text[start_idx] # "{" THEN NoJson
  ELSE ScanFrom(text, start_idx, start_idx, 0, FALSE, FALSE)

\* a scan that takes an object for closed at the end of the text
CloseAfter_at_end(s, i) == Len(s)

RECURSIVE CloseAfter(_, _)
\* where the object opened just before position i closes: only whitespace
\* may stand between the two for the whole to be JSON; 0 if it does not
CloseAfter(s, i) ==
  IF i > Len(s) THEN 0
  ELSE IF s[i].k = "close" THEN i
  ELSE IF s[i].k = "ws" THEN CloseAfter(s, i + 1)
  ELSE 0

RECURSIVE ScanObjects(_, _)
\* the first pass of extract_json_tool_call (lines 80-100): every balanced
\* object that parses to a dict with "name" and "arguments" is a call and is
\* cut out; the scan goes on after it
ScanObjects(s, i) ==
  IF i > Len(s) THEN [calls |-> <<>>, rest |-> <<>>]
  ELSE IF s[i].k = "obj"
    THEN LET r == ScanObjects(s, i + 1)
         IN [calls |-> <<s[i].c>> \o r.calls, rest |-> r.rest]
  ELSE IF s[i].k = "rep"
    THEN LET r == ScanObjects(s, i + 1)
         IN [calls |-> <<s[i].c, s[i].c, s[i].c>> \o r.calls, rest |-> r.rest]
  ELSE IF s[i].k = "open" /\ CloseAfter(s, i + 1) # 0
    THEN LET r == ScanObjects(s, CloseAfter(s, i + 1) + 1)
         IN [calls |-> <<s[i].c>> \o r.calls, rest |-> r.rest]
  ELSE IF Joined(s, i)
    THEN LET r == ScanObjects(s, i + 2)
         IN [calls |-> <<s[i + 1].c>> \o r.calls, rest |-> r.rest]
  ELSE LET r == ScanObjects(s, i + 1)
       IN [calls |-> r.calls, rest |-> <<s[i]>> \o r.rest]

\* known_tools of extract_json_tool_call (lines 32-36)
known_tools ==
  <<"read_file", "write_file", "edit_file", "grep", "glob", "bash", "git_status",
    "git_diff", "git_commit", "git_log", "git_branch", "web_search", "web_fetch",
    "create_plan", "todo_write">>

RECURSIVE NamedCalls(_, _, _)
\* the matches of one tool name (lines 111-129): each "N {...}" of the text
NamedCalls(s, tool_name, i) ==
  IF i > Len(s) THEN <<>>
  ELSE IF s[i].k = "fn" /\ s[i].c.name = tool_name
    THEN <<s[i].c>> \o NamedCalls(s, tool_name, i + 1)
  ELSE NamedCalls(s, tool_name, i + 1)

RECURSIVE ScanNames(_, _)
\* the second pass (lines 103-129): the known tools in their order, for
\* each the places where its name stands before a JSON object
ScanNames(s, t) ==
  IF t > Len(known_tools) THEN <<>>
  ELSE NamedCalls(s, known_tools[t], 1) \o ScanNames(s, t + 1)

RECURSIVE Without(_, _)
\* the text without its fragments of one kind
Without(s, kind) ==
  IF s = <<>> THEN <<>>
  ELSE IF Head(s).k = kind THEN Without(Tail(s), kind)
  ELSE <<Head(s)>> \o Without(Tail(s), kind)

RECURSIVE LStrip(_)
\* the text without its leading whitespace
LStrip(s) == IF s # <<>> /\ Head(s).k = "ws" THEN LStrip(Tail(s)) ELSE s

RECURSIVE RStrip(_)
\* the text without its trailing whitespace
RStrip(s) ==
  IF s # <<>> /\ s[Len(s)].k = "ws" THEN RStrip(SubSeq(s, 1, Len(s) - 1)) ELSE s

\* remaining.strip() (line 136)
Strip(s) == RStrip(LStrip(s))

\* an extraction that returns what the first pass left, as it is
extract_json_tool_call_unstripped(content) ==
  [remaining |-> ScanObjects(content, 1).rest, calls |-> ScanObjects(content, 1).calls]

\* extract_json_tool_call(content): (remaining_content, tool_calls); a
\* remaining content of None is the empty text
extract_json_tool_call(content) ==
  LET first == ScanObjects(content, 1)
      named == ScanNames(content, 1)
  IN IF first.calls # <<>>
       THEN [remaining |-> Strip(first.rest), calls |-> first.calls]
     ELSE IF named # <<>>
       THEN [remaining |-> Strip(Without(content, "fn")), calls |-> named]
     ELSE [remaining |-> content, calls |-> <<>>]

\* key = (tc.name, str(sorted(tc.arguments.items()))) (agent.py 191): the
\* items of the mapping in the order of their keys, every value by its repr;
\* the repr of a dict lists its keys in the order they were inserted
dedup_key(tc) == <<tc.name, tc.arguments>>

RECURSIVE Dedup(_, _)
\* the deduplication of the call list (agent.py 186-195)
Dedup(tcs, seen) ==
  IF tcs = <<>> THEN <<>>
  ELSE IF dedup_key(Head(tcs)) \in seen THEN Dedup(Tail(tcs), seen)
  ELSE <<Head(tcs)>> \o Dedup(Tail(tcs), seen \cup {dedup_key(Head(tcs))})

(***************************************************************************)
(* ContextManager (core/context.py) and TokenCounter (core/tokens.py)      *)
(***************************************************************************)
\* Settings.num_ctx
num_ctx == 16384

\* summarize_threshold = 0.75 (context.py 45), as a fraction: the product
\* with an integer is exact in floating point
summarize_threshold == [num |-> 3, den |-> 4]

\* int(max_tokens * summarize_threshold) (context.py 58)
threshold_of(max_tokens) ==
  (max_tokens * summarize_threshold.num) \div summarize_threshold.den

\* ContextManager.threshold of the agent's context manager (agent.py 44-47)
threshold == threshold_of(num_ctx)

\* TokenCounter.count(text), about a token for four characters
count(text) == StrLen(text) \div 4

\* TokenCounter.count_message
count_message(m) == 4 + count(m.content) + 12 * Len(m.tool_calls)

RECURSIVE count_messages_from(_, _)
count_messages_from(ms, i) ==
  IF i > Len(ms) THEN 0 ELSE count_message(ms[i]) + count_messages_from(ms, i + 1)

\* TokenCounter.count_messages
count_messages(ms) == 3 + count_messages_from(ms, 1)

\* a test that is already true at the threshold
exceeds_or_equals(used, limit) == used >= limit

\* used > self.threshold (context.py 91)
exceeds(used, limit) == used > limit

\* ContextManager.should_summarize
should_summarize(ms) == exceeds(count_messages(ms), threshold)

\* a Python index i of a list of n elements, as a slice bound reads it
PyIndex(i, n) ==
  IF i < 0 THEN (IF n + i < 0 THEN 0 ELSE n + i)
  ELSE (IF i > n THEN n ELSE i)

\* ms[a:b]
PySlice(ms, a, b) == SubSeq(ms, PyIndex(a, Len(ms)) + 1, PyIndex(b, Len(ms)))

\* messages[1:-recent_count] (context.py 121)
old_messages(ms, recent_count) == PySlice(ms, 1, -recent_count)

\* messages[-recent_count:] (context.py 122)
recent_messages(ms, recent_count) == PySlice(ms, -recent_count, Len(ms))

\* summarize_conversation returns its argument (context.py 114-115, 125-126)
returns_unchanged(ms, keep) ==
  \/ Len(ms) <= 1 + (keep * 2) + 2
  \/ Len(old_messages(ms, keep * 2)) < 2

\* the summarization request of context.py 146-150 is sent
summary_requested(ms, keep) == ~returns_unchanged(ms, keep)

\* a compaction in place: the old messages are deleted from the list given
\* and the summary is inserted into it
argument_after_in_place(ms, keep) ==
  IF returns_unchanged(ms, keep) THEN ms
  ELSE <<ms[1], SummaryMsg>> \o recent_messages(ms, keep * 2)

\* the list passed as messages once summarize_conversation has returned:
\* lines 113-158 read it (len, messages[0], two slices, which are new lists)
\* and nowhere assign to an index of it, delete from it or call a method
\* that changes it
argument_after(ms, keep) == ms

\* summarize_conversation returns the list object it was given (lines 115,
\* 126) rather than a new list (line 158)
returns_argument(ms, keep) == returns_unchanged(ms, keep)

\* a compaction that does not keep the system message
summarize_conversation_drops_system(ms, keep) ==
  IF returns_unchanged(ms, keep) THEN ms
  ELSE <<SummaryMsg>> \o recent_messages(ms, keep * 2)

\* ContextManager.summarize_conversation(messages, keep_recent)
summarize_conversation(ms, keep) ==
  IF returns_unchanged(ms, keep) THEN ms
  ELSE <<ms[1], SummaryMsg>> \o recent_messages(ms, keep * 2)

(***************************************************************************)
(* The permission gate (agent.py 373-466)                                  *)
(***************************************************************************)
\* a first_word that takes the last token
first_word_last(command) == IF command = <<>> THEN "" ELSE command[Len(command)]

\* command.split()[0] if command.split() else ""
first_word(command) == IF command = <<>> THEN "" ELSE Head(command)

\* a confirmation test that does not look at the permission mode
_requires_confirmation_any_mode(mode, tc) ==
  IF tc.name \in {"write_file", "edit_file"} /\ confirm_writes THEN TRUE
  ELSE IF tc.name = "bash" /\ confirm_commands
    THEN first_word(tc.arguments.command) \notin safe_commands
  ELSE IF tc.name = "git_commit" /\ confirm_writes THEN TRUE
  ELSE FALSE

\* Agent._requires_confirmation
_requires_confirmation(mode, tc) ==
  IF mode = AUTO_ACCEPT THEN FALSE
  ELSE IF tc.name \in {"write_file", "edit_file"} /\ confirm_writes THEN TRUE
  ELSE IF tc.name = "bash" /\ confirm_commands
    THEN first_word(tc.arguments.command) \notin safe_commands
  ELSE IF tc.name = "git_commit" /\ confirm_writes THEN TRUE
  ELSE FALSE

\* Agent._get_tool_directory
_get_tool_directory(tc) ==
  IF tc.name \in {"write_file", "edit_file", "read_file"} /\ tc.arguments.path # NoArg
    THEN Parent(tc.arguments.path)
  ELSE IF tc.name = "bash"
    THEN (IF tc.arguments.cwd # NoArg THEN tc.arguments.cwd ELSE Cwd)
  ELSE IF tc.name \in {"git_commit", "git_status", "git_diff"}
    THEN (IF tc.arguments.path # NoArg THEN tc.arguments.path ELSE Cwd)
  ELSE Cwd

\* Agent._is_directory_approved
_is_directory_approved(approved, directory) ==
  \E a \in approved : IsRelativeTo(directory, a)

\* an approval that records nothing
_approve_directory_none(approved, directory) == approved

\* Agent._approve_directory
_approve_directory(approved, directory) == approved \cup {directory}

(***************************************************************************)
(* ToolRegistry.execute (tools/registry.py) and the tools                  *)
(***************************************************************************)
\* BashTool.execute: cwd = working_directory or os.getcwd()
bash_cwd(tc) ==
  IF tc.arguments.working_directory # NoArg THEN tc.arguments.working_directory ELSE Cwd

\* whether the ToolResult of the call is a success
ToolSucceeds(tc) ==
  IF tc.name \notin RegisteredTools THEN FALSE
  ELSE IF tc.name = "create_plan" THEN tc.arguments.steps > 0
  ELSE IF tc.name \in {"read_file", "edit_file"} THEN tc.arguments.path \in ExistingFiles
  ELSE TRUE

\* the plan manager's current plan after the call was executed
PlanAfter(tc, plan) ==
  IF tc.name = "create_plan" /\ ToolSucceeds(tc)
    THEN create_plan("goal", StepDicts(tc.arguments.steps))
    ELSE plan

(***************************************************************************)
(* The language model: the responses it streams                            *)
(***************************************************************************)
\* prose, then a native tool call
Native(c) == <<ChatChunk(<<Txt>>, <<>>), ChatChunk(<<>>, <<c>>)>>
\* native tool calls, one of them twice
Several(c) == <<ChatChunk(<<>>, <<c, c>>), ChatChunk(<<>>, <<ReadCall>>)>>
\* a tool call written as JSON in the content, split over two fragments
Json(c) == <<ChatChunk(<<Tok("open", c)>>, <<>>), ChatChunk(<<Close>>, <<>>)>>
\* a tool call written as JSON that is cut off
Truncated(c) == <<ChatChunk(<<Tok("open", c)>>, <<>>)>>
\* prose, then a tool call written as JSON that is cut off
Unclosed(c) == <<ChatChunk(<<Txt>>, <<>>), ChatChunk(<<Tok("open", c)>>, <<>>)>>
\* the model repeats itself; the stream would go on
Repeating(c) == <<ChatChunk(<<Tok("rep", c)>>, <<>>), ChatChunk(<<Txt>>, <<>>)>>
\* two native shell calls in one chunk
Shell == <<ChatChunk(<<>>, <<BashThere, BashChain>>)>>
\* native calls that fail: an unknown tool, a file that does not exist
Failing == <<ChatChunk(<<>>, <<UnknownCall, ReadMissing>>)>>
\* the same todo_write call twice, the keys of its item in another order
Reordered == <<ChatChunk(<<>>, <<TodoCall, TodoSwapped>>)>>
\* a final answer in two fragments
Prose == <<ChatChunk(<<Txt>>, <<>>), ChatChunk(<<Txt>>, <<>>)>>
\* a short JSON object that is no tool call
ShortJson == <<ChatChunk(<<Curly>>, <<>>)>>
\* no content and no tool call
Empty == <<ChatChunk(<<>>, <<>>)>>
\* a long object with tool-call keys and balanced braces that is no JSON
Malformed == <<ChatChunk(<<Tok("bad", NoCall)>>, <<>>)>>
\* the chunk OllamaProvider.chat yields when the request raises
\* ollama.ResponseError: ChatChunk(content = "Error: ...", done = True)
ErrorChunk == ChatChunk(<<Tok("err", NoCall)>>, <<>>)
\* the request fails before anything was streamed
Failed == <<ErrorChunk>>
\* the request fails after a native tool call was streamed
FailedAfterCall == <<ChatChunk(<<>>, <<ReadCall>>), ErrorChunk>>
\* a tool call written as JSON in the content, then a native tool call
Both(c) == <<ChatChunk(<<Tok("obj", c)>>, <<>>), ChatChunk(<<>>, <<ReadCall>>)>>

Responses ==
  {Native(c) : c \in {ReadCall, WriteCall, PlanCall}} \cup
  {Several(WriteSub), Json(WriteCall), Truncated(WriteCall), Repeating(ReadCall),
   Shell, Failing, Prose, ShortJson, Empty, Malformed, Failed,
   FailedAfterCall, Reordered, Unclosed(WriteCall), Both(WriteCall)}

\* two native calls that write, in one chunk
Writes == <<ChatChunk(<<>>, <<WriteCall, WriteSub>>)>>

\* the responses that end the turn
LastResponses == {Prose, Empty}

\* the responses of a model that asks for writes, reads or answers
WriteResponses == {Writes, Native(ReadCall), Prose}

\* the fragments of a text the model writes
StreamToks ==
  {Txt, Ws, Curly, Close, Tok("lead", NoCall), Tok("tail", WriteCall),
   Tok("open", WriteCall), Tok("obj", WriteCall), Tok("fn", ReadCall)}

\* the ways a text of n fragments is cut into chunks: after which of its
\* fragments a chunk ends
Cuts(n) == {c \in SUBSET (1..n) : n > 0 => n \in c}

\* the chunk of the text that ends at its fragment e
ChunkTo(text, cuts, e) ==
  LET b == CHOOSE i \in 1..e :
             /\ \A j \in i..(e - 1) : j \notin cuts
             /\ i = 1 \/ (i - 1) \in cuts
  IN ChatChunk(SubSeq(text, b, e), <<>>)

RECURSIVE ChunksFrom(_, _, _)
\* the stream of the chunks of the text from its fragment i on
ChunksFrom(text, cuts, i) ==
  IF i > Len(text) THEN <<>>
  ELSE IF i \in cuts THEN <<ChunkTo(text, cuts, i)>> \o ChunksFrom(text, cuts, i + 1)
  ELSE ChunksFrom(text, cuts, i + 1)

\* the responses without native calls: every text of one to MaxText
\* fragments, streamed in every way it can be cut into chunks
SplitTexts ==
  UNION {{ChunksFrom(text, cuts, 1) : text \in [1..n -> StreamToks], cuts \in Cuts(n)} :
           n \in 1..MaxText}

(***************************************************************************)
(* Init                                                                    *)
(***************************************************************************)
Init ==
  /\ _interrupt_type = NONE
  /\ access = Access("none", "init", TRUE)
  /\ plan_mode_active = FALSE
  /\ current_plan = NoPlan
  /\ created_plan = NoPlan
  /\ ret = Ret("none", "", FALSE)
  /\ _current = NORMAL
  /\ messages = <<SystemMsg>>
  /\ approved_directories = {}
  /\ pc = "idle"
  /\ iteration = 0
  /\ interrupted = FALSE
  /\ stream = <<>>
  /\ response_content = <<>>
  /\ tool_calls = <<>>
  /\ streaming_started = FALSE
  /\ streamed = <<>>
  /\ looks_like_tool_call = FALSE
  /\ repetition_detected = FALSE
  /\ queue = <<>>
  /\ llm = Empty
  /\ turn = 0
  /\ turn_start = 1
  /\ wiped = FALSE
  /\ requests = 0
  /\ consumed = 0
  /\ executed = 0
  /\ prompts = 0
  /\ poll = "unpolled"
  /\ stopped = FALSE
  /\ warned = FALSE
  /\ outcome = "none"
  /\ called = [fn |-> "none"]
  /\ returned = [fn |-> "none"]

(***************************************************************************)
(* Agent.process_message (agent.py 68-371)                                 *)
(***************************************************************************)
\* a loop condition that admits one more iteration
LoopContinues_late(it, intr) == it <= max_iterations /\ ~intr

\* while iteration < max_iterations and not interrupted (line 89)
LoopContinues(it, intr) == it < max_iterations /\ ~intr

\* if iteration >= max_iterations (line 365)
CapReached(it) == it >= max_iterations

\* a poll that only honours a hard interrupt
PollStops_hard(v) == v = HARD

\* check_interrupted() != InterruptType.NONE (lines 108, 220)
PollStops(v) == v # NONE

\* the locals of an iteration as lines 93-97 set them
FreshLocals ==
  /\ response_content' = <<>>
  /\ tool_calls' = <<>>
  /\ streaming_started' = FALSE
  /\ streamed' = <<>>
  /\ looks_like_tool_call' = FALSE
  /\ repetition_detected' = FALSE
  /\ queue' = <<>>

\* the loop is left: lines 365-371
TurnEnds(how) ==
  /\ pc' = "idle"
  /\ outcome' = how
  /\ warned' = CapReached(iteration)
  /\ stream' = <<>>
  /\ FreshLocals
  /\ UNCHANGED iteration

\* the agent polls the flag: check_interrupted under the lock
Polls ==
  /\ poll' = check_interrupted
  /\ access' = Access("agent", "read", TRUE)
  /\ UNCHANGED _interrupt_type

\* a turn start that appends the user message and compacts afterwards
history_for_turn_late(ms, user_input) ==
  LET all == Append(ms, user_input)
  IN IF should_summarize(all) THEN summarize_conversation(all, keep_recent) ELSE all

\* lines 73-79: the conversation the loop starts on: compacted if needed,
\* then the user message appended
history_for_turn(ms, user_input) ==
  Append(IF should_summarize(ms) THEN summarize_conversation(ms, keep_recent) ELSE ms,
         user_input)

\* lines 68-82: clear the flag, compact if needed, append the user message
StartTurnWith(user_input) ==
  /\ pc = "idle"
  /\ turn < MaxTurns
  /\ clear
  /\ messages' = history_for_turn(messages, user_input)
  /\ turn_start' = Len(messages')
  /\ pc' = "loop"
  /\ iteration' = 0
  /\ interrupted' = FALSE
  /\ stream' = <<>>
  /\ FreshLocals
  /\ turn' = turn + 1
  /\ wiped' = PollStops(_interrupt_type)
  /\ requests' = 0
  /\ consumed' = 0
  /\ executed' = 0
  /\ prompts' = 0
  /\ poll' = "unpolled"
  /\ stopped' = FALSE
  /\ warned' = FALSE
  /\ outcome' = "running"
  /\ llm' = Empty
  /\ UNCHANGED <<planVars, _current, approved_directories>>
  /\ UNCHANGED callVars

\* a turn on a short user message
StartTurn ==
  /\ Len(messages) <= MaxHistory
  /\ StartTurnWith(UserMsg)

\* a turn that is answered in cut-up texts
StartTextTurn ==
  /\ Len(messages) <= MaxRendered
  /\ StartTurnWith(UserMsg)

\* a turn on a long user message; the conversation it starts on is short, or
\* it is about to be compacted
StartLongTurn ==
  /\ Len(messages) <= MaxHistory \/ should_summarize(messages)
  /\ StartTurnWith(LongUserMsg)

\* lines 89-106: the loop condition holds, the next model request is issued;
\* the model answers with one of the given responses
RequestFrom(responses) ==
  /\ pc = "loop"
  /\ LoopContinues(iteration, interrupted)
  /\ iteration' = iteration + 1
  /\ FreshLocals
  /\ \E r \in responses :
       /\ requests < MaxVaried \/ r = llm \/ r \in LastResponses
       /\ llm' = r
       /\ stream' = r
  /\ requests' = requests + 1
  /\ pc' = "stream"
  /\ UNCHANGED <<interruptVars, planVars, _current, messages, approved_directories,
                 interrupted, turn, turn_start, wiped, consumed, executed, prompts, poll,
                 stopped, warned, outcome>>
  /\ UNCHANGED callVars

\* a model request
Request == RequestFrom(Responses)

\* a model request answered by a model that asks for writes
RequestWrites == RequestFrom(WriteResponses)

\* a model request answered with a text that comes in fragments
RequestText == RequestFrom(SplitTexts)

\* line 89: the loop condition fails, the loop is left
LoopExit ==
  /\ pc = "loop"
  /\ ~LoopContinues(iteration, interrupted)
  /\ TurnEnds("cap")
  /\ UNCHANGED <<interruptVars, planVars, _current, messages, approved_directories,
                 interrupted, llmVars, turn, turn_start, wiped, requests, consumed, executed,
                 prompts, poll, stopped>>
  /\ UNCHANGED callVars

\* an interrupt handler that keeps what was accumulated as a message
AfterInterrupt_keep(ms, content) ==
  IF content # <<>> THEN Append(ms, Message("assistant", content, <<>>)) ELSE ms

\* lines 108-115: the conversation once a poll in the stream read an
\* interrupt; the accumulated content is dropped
AfterInterrupt(ms, content) == ms

\* lines 102-164: one fragment of the stream
Fragment ==
  /\ pc = "stream"
  /\ stream # <<>>
  /\ Polls
  /\ LET chunk == Head(stream)
         has == chunk.content # <<>>
         content == response_content \o chunk.content
         looks == IF has THEN LooksLikeToolCall(content, looks_like_tool_call)
                         ELSE looks_like_tool_call
         rep == has /\ RepetitionDetected(content)
     IN IF PollStops(check_interrupted)
          THEN /\ interrupted' = TRUE
               /\ stopped' = TRUE
               /\ messages' = AfterInterrupt(messages, response_content)
               /\ TurnEnds("interrupted_stream")
               /\ UNCHANGED consumed
          ELSE /\ response_content' = content
               /\ looks_like_tool_call' = looks
               /\ repetition_detected' = rep
               /\ streaming_started' = (streaming_started \/ (has /\ ~rep /\ ~looks))
               /\ streamed' = streamed \o [i \in 1..Len(chunk.content) |-> ~rep /\ ~looks]
               /\ tool_calls' = IF rep THEN tool_calls ELSE tool_calls \o chunk.tool_calls
               /\ stream' = IF rep THEN <<>> ELSE Tail(stream)
               /\ consumed' = consumed + 1
               /\ UNCHANGED <<messages, pc, iteration, interrupted, queue, stopped,
                              warned, outcome>>
  /\ UNCHANGED <<planVars, _current, approved_directories, llmVars,
                 turn, turn_start, wiped, requests, executed, prompts>>
  /\ UNCHANGED callVars

\* a resolution that adds the calls found in the content to the native ones
RawCalls_merged(content, tcs) == tcs \o extract_json_tool_call(content).calls

\* the call list of the iteration before deduplication (lines 179-183)
RawCalls(content, tcs) ==
  LET ex == extract_json_tool_call(content)
  IN IF content # <<>> /\ tcs = <<>> /\ ex.calls # <<>> THEN ex.calls ELSE tcs

\* the messages lines 207-215 and 319-360 append once the stream is over
Resolved(content, tcs) ==
  LET ex == extract_json_tool_call(content)
      useText == content # <<>> /\ tcs = <<>> /\ ex.calls # <<>>
      calls == Dedup(RawCalls(content, tcs), {})
      text == IF useText THEN ex.remaining ELSE content
  IN [calls |-> calls, text |-> text]

\* a retry test that looks at is_truncated_json alone
LooksTruncated_json_only(text) == is_truncated_json(text)

\* the retry test of line 334
LooksTruncated(text) == is_truncated_json(text) \/ is_very_short(text)

\* lines 166-215 and 317-363: the stream is over
StreamEnd ==
  /\ pc = "stream"
  /\ stream = <<>>
  /\ LET r == Resolved(response_content, tool_calls)
     IN IF r.calls # <<>>
          THEN /\ messages' = Append(messages, Message("assistant", r.text, r.calls))
               /\ response_content' = r.text
               /\ tool_calls' = r.calls
               /\ queue' = r.calls
               /\ pc' = "tools"
               /\ UNCHANGED <<iteration, stream, streaming_started, streamed,
                              looks_like_tool_call, repetition_detected, warned, outcome>>
          ELSE IF r.text # <<>> /\ LooksTruncated(r.text)
          THEN /\ messages' = messages \o
                    <<Message("assistant", r.text, <<>>), CorrectiveMsg>>
               /\ pc' = "loop"
               /\ UNCHANGED <<iteration, stream, response_content, tool_calls,
                              streaming_started, streamed,
                              looks_like_tool_call, repetition_detected, queue, warned, outcome>>
          ELSE IF r.text # <<>>
          THEN /\ messages' = Append(messages, Message("assistant", r.text, <<>>))
               /\ TurnEnds("final")
          ELSE /\ TurnEnds("empty")
               /\ UNCHANGED messages
  /\ UNCHANGED <<interruptVars, planVars, _current, approved_directories, interrupted,
                 llmVars, turn, turn_start, wiped, requests, consumed, executed, prompts,
                 poll, stopped>>
  /\ UNCHANGED callVars

\* where the loop stands once a call is dealt with: the next call, or line 315
AfterCall(rest) == IF rest = <<>> THEN "loop" ELSE "tools"

\* lines 218-273: the next queued call up to the start of its execution
ToolStep ==
  /\ pc = "tools"
  /\ queue # <<>>
  /\ Polls
  /\ LET tc == Head(queue)
         target_dir == _get_tool_directory(tc)
     IN IF PollStops(check_interrupted)
          THEN /\ interrupted' = TRUE
               /\ stopped' = TRUE
               /\ TurnEnds("interrupted_tool")
               /\ UNCHANGED <<messages, approved_directories, executed, prompts>>
          ELSE IF ~is_tool_allowed(tc.name)
          THEN /\ messages' = Append(messages, BlockedMsg)
               /\ queue' = Tail(queue)
               /\ pc' = AfterCall(Tail(queue))
               /\ UNCHANGED <<approved_directories, executed, prompts, iteration,
                              interrupted, stream, response_content, tool_calls,
                              streaming_started, streamed,
                              looks_like_tool_call, repetition_detected, stopped, warned, outcome>>
          ELSE IF /\ _requires_confirmation(_current, tc)
                  /\ ~_is_directory_approved(approved_directories, target_dir)
          THEN /\ prompts' = prompts + 1
               /\ \E answer \in BOOLEAN :
                    IF answer
                      THEN /\ approved_directories' =
                                _approve_directory(approved_directories, target_dir)
                           /\ pc' = "exec"
                           /\ executed' = executed + 1
                           /\ UNCHANGED <<messages, queue>>
                      ELSE /\ messages' = Append(messages, DeclinedMsg)
                           /\ queue' = Tail(queue)
                           /\ pc' = AfterCall(Tail(queue))
                           /\ UNCHANGED <<approved_directories, executed>>
               /\ UNCHANGED <<iteration, interrupted, stream, response_content,
                              tool_calls, streaming_started, streamed,
                              looks_like_tool_call, repetition_detected, stopped, warned, outcome>>
          ELSE /\ pc' = "exec"
               /\ executed' = executed + 1
               /\ UNCHANGED <<messages, approved_directories, prompts, queue, iteration,
                              interrupted, stream, response_content, tool_calls,
                              streaming_started, streamed,
                              looks_like_tool_call, repetition_detected, stopped, warned, outcome>>
  /\ UNCHANGED <<planVars, _current, llmVars, turn, turn_start, wiped, requests, consumed>>
  /\ UNCHANGED callVars

\* ChatConsole.print_tool_result(self, output, success = True): the
\* parameters a caller may pass (console.py 442)
print_tool_result_params == {"output", "success"}

\* a console whose print_tool_result takes the keywords the loop passes
print_tool_result_params_wide ==
  {"output", "success", "file_path", "content", "tool_name"}

\* the keyword arguments of the call at agent.py 294-300
print_tool_result_keywords == {"file_path", "content", "tool_name"}

\* the call of print_tool_result raises TypeError: a keyword it is given
\* is none of its parameters
print_tool_result_raises == ~(print_tool_result_keywords \subseteq print_tool_result_params)

\* an exception leaves process_message: the lines after the loop are not run
Raises ==
  /\ pc' = "idle"
  /\ outcome' = "exception"
  /\ warned' = FALSE
  /\ stream' = <<>>
  /\ FreshLocals
  /\ UNCHANGED iteration

\* lines 273-308: the execution returns, the result is displayed and appended
ToolDone ==
  /\ pc = "exec"
  /\ LET tc == Head(queue)
     IN /\ current_plan' = PlanAfter(tc, current_plan)
        /\ created_plan' = PlanAfter(tc, created_plan)
        /\ IF print_tool_result_raises
             THEN /\ Raises
                  /\ UNCHANGED messages
             ELSE /\ messages' =
                       Append(messages, IF ToolSucceeds(tc) THEN OutputMsg ELSE ErrorMsg)
                  /\ queue' = Tail(queue)
                  /\ pc' = AfterCall(Tail(queue))
                  /\ UNCHANGED <<iteration, stream, response_content, tool_calls,
                                 streaming_started, streamed,
                                 looks_like_tool_call, repetition_detected, warned, outcome>>
  /\ UNCHANGED <<interruptVars, plan_mode_active, ret, _current, approved_directories,
                 interrupted, llmVars, turn, turn_start, wiped, requests, consumed,
                 executed, prompts, poll, stopped>>
  /\ UNCHANGED callVars

\* a clear_history that also forgets the approved directories
clear_history_forgets ==
  /\ pc = "idle"
  /\ messages # <<SystemMsg>>
  /\ messages' = <<SystemMsg>>
  /\ turn_start' = 1
  /\ approved_directories' = {}
  /\ UNCHANGED <<interruptVars, planVars, _current, pc,
                 localVars, llmVars, turn, wiped, requests, consumed, executed,
                 prompts, poll, stopped, warned, outcome>>
  /\ UNCHANGED callVars

\* Agent.clear_history (the /clear command)
clear_history ==
  /\ pc = "idle"
  /\ messages # <<SystemMsg>>
  /\ messages' = <<SystemMsg>>
  /\ turn_start' = 1
  /\ UNCHANGED <<interruptVars, planVars, _current, approved_directories, pc,
                 localVars, llmVars, turn, wiped, requests, consumed, executed,
                 prompts, poll, stopped, warned, outcome>>
  /\ UNCHANGED callVars

\* Agent.switch_model (the /model command): a new provider object
switch_model ==
  /\ pc = "idle"
  /\ llm' = Empty
  /\ UNCHANGED <<interruptVars, planVars, _current, agentVars, localVars, obsVars>>
  /\ UNCHANGED callVars

\* the directories a tool call can target
Dirs == UNION {[1..n -> {"a", "ab", "b"}] : n \in 0..MaxDepth}

\* Agent._approve_directory(directory), for any directory a prompt is granted for
ApproveDirectory ==
  /\ pc = "idle"
  /\ Cardinality(approved_directories) < MaxApproved
  /\ \E d \in Dirs : approved_directories' = _approve_directory(approved_directories, d)
  /\ UNCHANGED <<interruptVars, planVars, _current, messages, pc, localVars, llmVars,
                 obsVars>>
  /\ UNCHANGED callVars

(***************************************************************************)
(* Functions called on their own                                           *)
(***************************************************************************)
\* the fragments a text is made of
TextToks ==
  {Txt, Ws, Curly, Close, Tok("bad", NoCall), Tok("open", WriteCall),
   Tok("obj", WriteCall), Tok("obj", ReadCall), Tok("fn", WriteCall),
   Tok("fn", ReadCall)}

\* the texts of at most MaxText fragments
Texts == UNION {[1..n -> TextToks] : n \in 0..MaxText}

\* extract_json_tool_call(content) is called on a text
ExtractJsonToolCall ==
  /\ called.fn = "none"
  /\ \E content \in Texts :
       /\ called' = [fn |-> "extract_json_tool_call", content |-> content]
       /\ returned' = extract_json_tool_call(content)
  /\ UNCHANGED <<interruptVars, planVars, _current, agentVars, localVars, llmVars,
                 obsVars>>

\* the texts of at most MaxChars characters
CharTexts == UNION {[1..n -> Chars] : n \in 0..MaxChars}

\* find_balanced_json(text, start_idx) is called at the start of a text or
\* after its first character
FindBalancedJson ==
  /\ called.fn = "none"
  /\ \E text \in CharTexts, start_idx \in 1..2 :
       /\ called' = [fn |-> "find_balanced_json", text |-> text,
                     start_idx |-> start_idx]
       /\ returned' = find_balanced_json(text, start_idx)
  /\ UNCHANGED <<interruptVars, planVars, _current, agentVars, localVars, llmVars,
                 obsVars>>

\* should_summarize(messages) is called: the counter finds used tokens in
\* the conversation, the context manager was built for max_tokens
ShouldSummarize ==
  /\ called.fn = "none"
  /\ \E max_tokens \in 1..MaxUsed, used \in 3..MaxUsed :
       /\ called' = [fn |-> "should_summarize", max_tokens |-> max_tokens,
                     used |-> used]
       /\ returned' = [value |-> exceeds(used, threshold_of(max_tokens))]
  /\ UNCHANGED <<interruptVars, planVars, _current, agentVars, localVars, llmVars,
                 obsVars>>

\* the conversations of at most MaxMessages messages: the system message,
\* then user and assistant messages in turn, each with one of two contents
Conversations ==
  UNION {{<<SystemMsg>> \o
            [i \in 1..n |-> Note(IF i % 2 = 1 THEN "user" ELSE "assistant", tag[i])] :
              tag \in [1..n -> {"p", "q"}]} : n \in 0..(MaxMessages - 1)}

\* summarize_conversation(messages, keep_recent) is called
SummarizeConversation ==
  /\ called.fn = "none"
  /\ \E ms \in Conversations, k \in 0..MaxKeep :
       /\ called' = [fn |-> "summarize_conversation", messages |-> ms,
                     keep_recent |-> k]
       /\ returned' = [messages |-> summarize_conversation(ms, k),
                       requested |-> summary_requested(ms, k),
                       argument |-> argument_after(ms, k),
                       same_list |-> returns_argument(ms, k)]
  /\ UNCHANGED <<interruptVars, planVars, _current, agentVars, localVars, llmVars,
                 obsVars>>

(***************************************************************************)
(* The UI task                                                             *)
(***************************************************************************)
\* some task awaits signal_interrupt(t)
SignalInterrupt ==
  /\ \E t \in {SOFT, HARD} : signal_interrupt(t)
  /\ UNCHANGED <<planVars, _current, agentVars, localVars, llmVars, obsVars>>
  /\ UNCHANGED callVars

\* ChatConsole._on_interrupt (the Escape key): signal_interrupt_sync()
_on_interrupt ==
  /\ signal_interrupt_sync(SOFT)
  /\ UNCHANGED <<planVars, _current, agentVars, localVars, llmVars, obsVars>>
  /\ UNCHANGED callVars

\* ChatConsole._on_cycle_permission (Shift+Tab at the prompt)
_on_cycle_permission ==
  /\ pc = "idle"
  /\ _current' = cycle(_current)
  /\ UNCHANGED <<interruptVars, planVars, agentVars, localVars, llmVars, obsVars>>
  /\ UNCHANGED callVars

(***************************************************************************)
(* The PlanManager API, called between turns                               *)
(***************************************************************************)
notPlanVars == <<interruptVars, _current, agentVars, localVars, llmVars, obsVars>>

\* PlanManager.start_plan_mode
start_plan_mode ==
  /\ pc = "idle"
  /\ plan_mode_active' = TRUE
  /\ current_plan' = NoPlan
  /\ UNCHANGED <<created_plan, ret, notPlanVars>>
  /\ UNCHANGED callVars

\* PlanManager.end_plan_mode
end_plan_mode ==
  /\ pc = "idle"
  /\ plan_mode_active' = FALSE
  /\ UNCHANGED <<current_plan, created_plan, ret, notPlanVars>>
  /\ UNCHANGED callVars

\* the step lists a caller passes to create_plan: descriptions, in order
StepLists ==
  UNION {[1..n -> {"first", "second"}] : n \in 0..MaxSteps}

\* PlanManager.create_plan(goal, steps), called with the given steps
CreatePlanWith(steps) ==
  /\ pc = "idle"
  /\ current_plan' = create_plan("goal", steps)
  /\ created_plan' = current_plan'
  /\ UNCHANGED <<plan_mode_active, ret, notPlanVars>>
  /\ UNCHANGED callVars

\* PlanManager.create_plan(goal, steps)
CreatePlan == \E steps \in StepLists : CreatePlanWith(steps)

\* the step dictionaries a model passes to the create_plan tool: with a
\* description, with an empty one, or without the key
StepDictLists ==
  UNION {[1..n -> {[description |-> "first"], [description |-> ""],
                   [files_affected |-> "file.py"]}] : n \in 0..MaxSteps}

\* step.get("description"), None being the empty string
get_description(step) ==
  IF "description" \in DOMAIN step THEN step.description ELSE ""

\* a validation that only asks for the key
lacks_description_key(step) == "description" \notin DOMAIN step

\* not step.get("description") (tools/plan.py 79)
lacks_description(step) == get_description(step) = ""

\* CreatePlanTool.execute returns ToolResult.fail (tools/plan.py 75-80)
execute_fails(steps) ==
  steps = <<>> \/ \E i \in 1..Len(steps) : lacks_description(steps[i])

\* CreatePlanTool.execute(goal, steps), called with the given steps
ExecuteCreatePlanWith(steps) ==
  /\ pc = "idle"
  /\ IF execute_fails(steps)
       THEN /\ ret' = Ret("CreatePlanTool.execute", "", FALSE)
            /\ UNCHANGED <<current_plan, created_plan>>
       ELSE /\ current_plan' =
                 create_plan("goal", [i \in 1..Len(steps) |-> get_description(steps[i])])
            /\ created_plan' = current_plan'
            /\ ret' = Ret("CreatePlanTool.execute", "", TRUE)
  /\ UNCHANGED <<plan_mode_active, notPlanVars>>
  /\ UNCHANGED callVars

\* CreatePlanTool.execute(goal, steps)
ExecuteCreatePlan == \E steps \in StepDictLists : ExecuteCreatePlanWith(steps)

\* PlanManager.approve_plan
approve_plan ==
  /\ pc = "idle"
  /\ LET r == approve_plan_in(plan_mode_active, current_plan)
     IN /\ current_plan' = r.plan
        /\ created_plan' = IF r.value THEN r.plan ELSE created_plan
        /\ plan_mode_active' = r.active
        /\ ret' = Ret("approve_plan", "", r.value)
  /\ UNCHANGED notPlanVars
  /\ UNCHANGED callVars

\* PlanManager.reject_plan
reject_plan ==
  /\ pc = "idle"
  /\ LET r == reject_plan_in(plan_mode_active, current_plan)
     IN /\ current_plan' = r.plan
        /\ created_plan' = IF r.value THEN r.rejected ELSE created_plan
        /\ plan_mode_active' = r.active
        /\ ret' = Ret("reject_plan", "", r.value)
  /\ UNCHANGED notPlanVars
  /\ UNCHANGED callVars

\* mark_step_in_progress / mark_step_completed: the plan and the result
mark_step_in(plan, step_index, status) ==
  IF plan # NoPlan /\ 0 <= step_index /\ step_index < Len(plan.steps)
    THEN [plan |-> [plan EXCEPT !.steps[step_index + 1].status = status],
          value |-> TRUE]
    ELSE [plan |-> plan, value |-> FALSE]

\* PlanManager.mark_step_in_progress(step_index)
mark_step_in_progress ==
  /\ pc = "idle"
  /\ \E i \in 0..MaxSteps :
       LET r == mark_step_in(current_plan, i, "in_progress")
       IN /\ current_plan' = r.plan
          /\ created_plan' = IF r.value THEN r.plan ELSE created_plan
          /\ ret' = Ret("mark_step_in_progress", "", r.value)
  /\ UNCHANGED <<plan_mode_active, notPlanVars>>
  /\ UNCHANGED callVars

\* PlanManager.mark_step_completed(step_index)
mark_step_completed ==
  /\ pc = "idle"
  /\ \E i \in 0..MaxSteps :
       LET r == mark_step_in(current_plan, i, "completed")
       IN /\ current_plan' = r.plan
          /\ created_plan' = IF r.value THEN r.plan ELSE created_plan
          /\ ret' = Ret("mark_step_completed", "", r.value)
  /\ UNCHANGED <<plan_mode_active, notPlanVars>>
  /\ UNCHANGED callVars

\* PlanManager.is_tool_allowed(tool_name), asked by some caller
IsToolAllowed ==
  /\ pc = "idle"
  /\ \E name \in ToolNames : ret' = Ret("is_tool_allowed", name, is_tool_allowed(name))
  /\ UNCHANGED <<plan_mode_active, current_plan, created_plan, notPlanVars>>
  /\ UNCHANGED callVars

Loop == StartTurn \/ Request \/ LoopExit \/ Fragment \/ StreamEnd \/ ToolStep \/ ToolDone

\* the agent loop and the tasks that signal an interrupt
Next == Loop \/ SignalInterrupt \/ _on_interrupt

Spec == Init /\ [][Next]_vars

\* the agent loop and what the user does between turns
NextGate ==
  \/ Loop
  \/ clear_history
  \/ switch_model
  \/ _on_cycle_permission
  \/ start_plan_mode
  \/ approve_plan

SpecGate == Init /\ [][NextGate]_vars

\* the PlanManager on its own
NextPlan ==
  \/ start_plan_mode
  \/ end_plan_mode
  \/ CreatePlan
  \/ approve_plan
  \/ reject_plan
  \/ mark_step_in_progress
  \/ mark_step_completed
  \/ IsToolAllowed
  \/ ExecuteCreatePlan

SpecPlan == Init /\ [][NextPlan]_vars

\* the approved directories on their own
NextDirs == ApproveDirectory

SpecDirs == Init /\ [][NextDirs]_vars

\* extract_json_tool_call on its own
NextExtract == ExtractJsonToolCall

SpecExtract == Init /\ [][NextExtract]_vars

\* the context manager on its own
NextContext == ShouldSummarize \/ SummarizeConversation

SpecContext == Init /\ [][NextContext]_vars

\* turns on long user messages, with interrupts and /clear between turns
NextCompact == Loop \/ StartLongTurn \/ clear_history \/ _on_interrupt

SpecCompact == Init /\ [][NextCompact]_vars

\* the agent loop on texts that come in fragments
NextRender ==
  \/ StartTextTurn
  \/ RequestText
  \/ LoopExit
  \/ Fragment
  \/ StreamEnd
  \/ ToolStep
  \/ ToolDone

SpecRender == Init /\ [][NextRender]_vars

\* turns on long user messages in which the model asks for writes
NextWrites ==
  \/ StartLongTurn
  \/ RequestWrites
  \/ LoopExit
  \/ Fragment
  \/ StreamEnd
  \/ ToolStep
  \/ ToolDone

SpecWrites == Init /\ [][NextWrites]_vars

\* find_balanced_json on its own
NextScan == FindBalancedJson

SpecScan == Init /\ [][NextScan]_vars

(***************************************************************************)
(* Properties                                                              *)
(***************************************************************************)
\* the messages appended since the user message of the current turn
TurnMessages == SubSeq(messages, turn_start + 1, Len(messages))

\* the positions of the assistant messages in a sequence of messages
AssistantAt(ms) == {i \in 1..Len(ms) : ms[i].role = "assistant"}

\* the number of responses of this turn that gave at least one tool call
ToolResponses ==
  Cardinality({i \in AssistantAt(TurnMessages) : TurnMessages[i].tool_calls # <<>>})

\* a turn is over
TurnOver == pc = "idle" /\ turn > 0

\* C1: the loop never issues more than max_iterations model requests in a
\* turn, and a turn in which every response gave a tool call and no
\* interrupt was signalled ends after exactly max_iterations requests with
\* the cap-reached warning.
CapStopsLoop ==
  /\ requests <= max_iterations
  /\ (TurnOver /\ _interrupt_type = NONE /\ ToolResponses = requests)
       => (requests = max_iterations /\ warned /\ outcome = "cap")

\* C2: at the end of a turn the cap-reached warning has been printed exactly
\* when the loop ran out of iterations without a terminal response; a turn
\* ended by a final answer, an empty response or an interrupt has none.
WarningOnlyWithoutAnswer == TurnOver => (warned <=> outcome = "cap")

\* C3 as stated: a turn ended by an interrupt leaves no assistant message
\* that was appended during the turn.
InterruptLeavesNoAssistant ==
  (TurnOver /\ interrupted) => AssistantAt(TurnMessages) = {}

\* C3 as amended: a turn ended by an interrupt leaves no assistant message
\* for the stream that was in flight and no final answer; every assistant
\* message appended during the turn comes from a stream that was completed
\* before: it carries tool calls, or it is a partial followed by the
\* corrective message.
InterruptDropsStream ==
  (TurnOver /\ interrupted) =>
    /\ \A i \in AssistantAt(TurnMessages) :
         \/ TurnMessages[i].tool_calls # <<>>
         \/ (i < Len(TurnMessages) /\ TurnMessages[i + 1] = CorrectiveMsg)
    /\ outcome = "interrupted_stream" =>
         Cardinality(AssistantAt(TurnMessages)) = requests - 1
    /\ outcome = "interrupted_tool" =>
         /\ Cardinality(AssistantAt(TurnMessages)) = requests
         /\ ToolResponses >= 1

\* an interrupt was read in the middle of a stream whose fragments had been
\* accumulated, in an iteration after the first
InterruptDropsStreamWitness ==
  /\ TurnOver
  /\ outcome = "interrupted_stream"
  /\ requests >= 2
  /\ consumed >= 3
  /\ AssistantAt(TurnMessages) # {}

\* C4: a fragment is accumulated and a tool execution is started only in a
\* step whose poll of the flag read NONE; once a poll has read another
\* value the turn is over, and no fragment is consumed, no model request
\* issued and no tool execution started until the next turn begins.
PollBeforeEachStep ==
  [][/\ (consumed' > consumed \/ executed' > executed) =>
          (_interrupt_type = NONE /\ poll' = NONE)
     /\ (/\ \/ (pc = "stream" /\ stream # <<>>)
            \/ (pc = "tools" /\ queue # <<>>)
         /\ access'.task = "agent"
         /\ _interrupt_type # NONE)
          => (poll' = _interrupt_type /\ stopped')
     /\ stopped' =>
          /\ pc' = "idle"
          /\ consumed' = consumed
          /\ requests' = requests
          /\ executed' = executed
    ]_vars

\* fragments were consumed, a call was prompted for and declined, and the
\* poll before the next queued call stopped the turn
PollBeforeEachStepWitness ==
  /\ stopped
  /\ pc = "idle"
  /\ poll \in {SOFT, HARD}
  /\ consumed > 0
  /\ prompts > 0
  /\ outcome = "interrupted_tool"

\* C5: the flag goes back to NONE in the step that starts a turn and in no
\* other step, so a signal given during a turn is still there at every later
\* poll of the turn, and a signal given between turns is gone when the new
\* turn polls.
ClearedOnlyAtTurnStart ==
  [][/\ (pc = "idle" /\ pc' # "idle") => (_interrupt_type' = NONE /\ poll' = "unpolled")
     /\ (_interrupt_type # NONE /\ _interrupt_type' = NONE) => (pc = "idle" /\ pc' = "loop")
     /\ (pc # "idle" /\ poll' # poll) => poll' = _interrupt_type
    ]_vars

\* a turn began while the flag was set, and a poll of that turn read NONE
\* and let a fragment through
ClearedOnlyAtTurnStartWitness ==
  /\ wiped
  /\ pc = "stream"
  /\ poll = NONE
  /\ consumed > 0

\* C6: every access to the flag is made under the controller's lock.
FlagAccessUnderLock == access.locked

\* C7: when plan mode is active and the poll of a queued call passed, a call
\* of a tool outside the read-only set is not executed: the step appends
\* the one explanatory tool message, issues no confirmation prompt, leaves
\* the approved directories alone and goes on to the next call.
PlanModeBlocks ==
  [][(/\ pc = "tools"
      /\ queue # <<>>
      /\ (pc' # pc \/ queue' # queue)
      /\ _interrupt_type = NONE
      /\ plan_mode_active
      /\ Head(queue).name \notin READONLY_TOOLS)
     => (/\ messages' = Append(messages, BlockedMsg)
         /\ executed' = executed
         /\ prompts' = prompts
         /\ approved_directories' = approved_directories
         /\ queue' = Tail(queue)
         /\ pc' = (IF Tail(queue) = <<>> THEN "loop" ELSE "tools"))
    ]_vars

\* a write call was blocked in plan mode and the next call of the queue is up
PlanModeBlocksWitness ==
  /\ pc = "tools"
  /\ plan_mode_active
  /\ queue # <<>>
  /\ Len(queue) < Len(tool_calls)
  /\ messages[Len(messages)] = BlockedMsg
  /\ executed = 0
  /\ prompts = 0

\* C8: is_tool_allowed(name) answers true for every name when plan mode is
\* off, and in plan mode exactly for the names of the read-only set,
\* whatever the current plan is.
ToolAllowedIffReadOnly ==
  [][IsToolAllowed =>
       (ret'.value <=> (~plan_mode_active \/ ret'.arg \in READONLY_TOOLS))]_vars

\* in plan mode, with a plan pending, a write tool was refused
ToolAllowedIffReadOnlyWitness ==
  /\ ret.op = "is_tool_allowed"
  /\ ret.arg = "write_file"
  /\ ~ret.value
  /\ plan_mode_active
  /\ current_plan.status = PENDING_APPROVAL

\* C9: while the permission mode is PLAN_MODE and no plan has been approved,
\* the loop executes no tool outside the read-only set.
PlanPermissionModeReadOnly ==
  (pc = "exec" /\ _current = PLAN_MODE /\ current_plan.status # APPROVED)
    => Head(queue).name \in READONLY_TOOLS

\* C10: approve_plan on a plan pending approval marks it APPROVED, turns
\* plan mode off and returns true; without a current plan it returns false
\* and changes neither the plan-mode flag nor the current plan.
ApprovePendingPlan ==
  [][approve_plan =>
       /\ current_plan = NoPlan =>
            /\ ~ret'.value
            /\ plan_mode_active' = plan_mode_active
            /\ current_plan' = NoPlan
       /\ current_plan.status = PENDING_APPROVAL =>
            /\ ret'.value
            /\ ~plan_mode_active'
            /\ current_plan' = [current_plan EXCEPT !.status = APPROVED]
    ]_vars

\* a plan created in plan mode was approved
ApprovePendingPlanWitness ==
  /\ ret = Ret("approve_plan", "", TRUE)
  /\ current_plan.status = APPROVED
  /\ Len(current_plan.steps) > 0
  /\ ~plan_mode_active

\* C11: approve_plan and reject_plan called on a current plan whose status
\* is not PENDING_APPROVAL change neither the current plan, nor the status
\* of the plan object, nor the plan-mode flag.
DecisionsOnlyFromPending ==
  [][((approve_plan \/ reject_plan)
        /\ current_plan # NoPlan
        /\ current_plan.status # PENDING_APPROVAL)
       => (/\ current_plan' = current_plan
           /\ created_plan'.status = created_plan.status
           /\ plan_mode_active' = plan_mode_active)
    ]_vars

\* C12: reject_plan on a plan pending approval marks the plan object
\* REJECTED, leaves the manager without a current plan, turns plan mode off
\* and returns true; without a current plan it returns false and changes
\* no state of the manager.
RejectPendingPlan ==
  [][reject_plan =>
       /\ current_plan = NoPlan =>
            /\ ~ret'.value
            /\ UNCHANGED <<plan_mode_active, current_plan, created_plan>>
       /\ current_plan.status = PENDING_APPROVAL =>
            /\ ret'.value
            /\ current_plan' = NoPlan
            /\ created_plan' = [current_plan EXCEPT !.status = REJECTED]
            /\ ~plan_mode_active'
    ]_vars

\* a plan with steps was rejected: its holder sees it REJECTED, the manager
\* has no current plan and plan mode is off
RejectPendingPlanWitness ==
  /\ ret = Ret("reject_plan", "", TRUE)
  /\ current_plan = NoPlan
  /\ created_plan.status = REJECTED
  /\ Len(created_plan.steps) > 0
  /\ ~plan_mode_active

\* C13: create_plan(goal, steps) installs a plan pending approval as the
\* current plan whatever plan was there before, with one step per given
\* step in the given order, and leaves the plan-mode flag as it was.
CreateReplacesPlan ==
  [][\A steps \in StepLists :
       CreatePlanWith(steps) =>
         /\ current_plan'.status = PENDING_APPROVAL
         /\ current_plan'.goal = "goal"
         /\ Len(current_plan'.steps) = Len(steps)
         /\ \A i \in 1..Len(steps) :
              /\ current_plan'.steps[i].description = steps[i]
              /\ current_plan'.steps[i].status = "pending"
         /\ plan_mode_active' = plan_mode_active
    ]_vars

\* after an approval, a plan of two different steps was created while plan
\* mode was on: it is pending, its steps in the order given
CreateReplacesPlanWitness ==
  /\ ret = Ret("approve_plan", "", TRUE)
  /\ plan_mode_active
  /\ current_plan.status = PENDING_APPROVAL
  /\ Len(current_plan.steps) = 2
  /\ current_plan.steps[1].description = "second"
  /\ current_plan.steps[2].description = "first"

\* tool calls of every kind the gate distinguishes
GateCalls ==
  {ReadCall, ReadMissing, WriteCall, WriteSub, BashLs, BashRm, PlanCall, PlanEmpty,
   BashChain, BashThere, UnknownCall,
   ToolCall("edit_file", [NoArgs EXCEPT !.path = <<"a", "f">>]),
   ToolCall("git_commit", NoArgs), ToolCall("bash", NoArgs)}

\* C14: a call that requires confirmation starts executing only with its
\* target directory approved, by an earlier approval or by the prompt of
\* this call; a prompt that is declined starts no execution, appends the
\* one refusal message, leaves the approved directories as they were and
\* goes on to the next call.
ConfirmedBeforeExecution ==
  [][/\ (executed' > executed /\ _requires_confirmation(_current, Head(queue)))
          => /\ _is_directory_approved(approved_directories',
                                       _get_tool_directory(Head(queue)))
             /\ (prompts' = prompts =>
                   _is_directory_approved(approved_directories,
                                          _get_tool_directory(Head(queue))))
     /\ (prompts' > prompts /\ pc' # "exec")
          => /\ messages' = Append(messages, DeclinedMsg)
             /\ executed' = executed
             /\ approved_directories' = approved_directories
             /\ queue' = Tail(queue)
    ]_vars

\* a write was declined, and a later write in the same directory was
\* prompted for again, granted and is executing
ConfirmedBeforeExecutionWitness ==
  /\ pc = "exec"
  /\ _requires_confirmation(_current, Head(queue))
  /\ prompts = 2
  /\ executed = 1
  /\ \E i \in 1..Len(TurnMessages) : TurnMessages[i] = DeclinedMsg
  /\ approved_directories = {_get_tool_directory(Head(queue))}

\* C15: in AUTO_ACCEPT mode no call requires confirmation, and a turn run
\* in AUTO_ACCEPT issues no confirmation prompt and leaves the approved
\* directories as they were.
AutoAcceptNeverPrompts ==
  [][/\ \A tc \in GateCalls : ~_requires_confirmation(AUTO_ACCEPT, tc)
     /\ _current = AUTO_ACCEPT =>
          /\ prompts' <= prompts
          /\ pc' # "idle" => prompts' = 0
          /\ approved_directories' = approved_directories
    ]_vars

\* in AUTO_ACCEPT a write in a directory that was never approved is
\* executing without a prompt
AutoAcceptNeverPromptsWitness ==
  /\ _current = AUTO_ACCEPT
  /\ pc = "exec"
  /\ Head(queue).name = "write_file"
  /\ prompts = 0
  /\ approved_directories = {}

\* d is a itself or lies below a
AtOrBelow(d, a) ==
  \/ d = a
  \/ (Len(d) > Len(a) /\ \A i \in 1..Len(a) : d[i] = a[i])

\* C16: a directory is reported approved exactly when it is an approved
\* directory or lies below one; with only /a approved, /a and /a/b are
\* approved and neither / nor /ab is.
ApprovalDownwardOnly ==
  /\ \A d \in Dirs :
       _is_directory_approved(approved_directories, d)
         <=> \E a \in approved_directories : AtOrBelow(d, a)
  /\ approved_directories = {<<"a">>} =>
       /\ _is_directory_approved(approved_directories, <<"a">>)
       /\ _is_directory_approved(approved_directories, <<"a", "b">>)
       /\ ~_is_directory_approved(approved_directories, <<>>)
       /\ ~_is_directory_approved(approved_directories, <<"ab">>)

\* only /a is approved
ApprovalDownwardOnlyWitness == approved_directories = {<<"a">>}

\* C17: no step of a session, clear_history and switch_model included,
\* takes a directory out of the approved set; the set grows only in a step
\* that issues a prompt and starts the execution, by the directory of that
\* call; and a prompt is issued only for a directory that is not approved.
ApprovedDirectoriesOnlyGrow ==
  [][/\ approved_directories \subseteq approved_directories'
     /\ approved_directories' # approved_directories =>
          /\ prompts' = prompts + 1
          /\ pc' = "exec"
          /\ approved_directories' =
               approved_directories \cup {_get_tool_directory(Head(queue))}
     /\ (pc = "tools" /\ prompts' > prompts) =>
          ~_is_directory_approved(approved_directories, _get_tool_directory(Head(queue)))
    ]_vars

\* /a was approved in the first turn; after clear_history, the second turn
\* executes a write in /a/b without a prompt
ApprovedDirectoriesOnlyGrowWitness ==
  /\ turn = 2
  /\ turn_start = 2
  /\ pc = "exec"
  /\ Head(queue) = WriteSub
  /\ approved_directories = {<<"a">>}
  /\ prompts = 0

\* C18: when a bash call starts executing, the directory the permission
\* gate looked at for it is the directory the shell tool runs the command
\* in.
GateChecksShellDirectory ==
  (pc = "exec" /\ Head(queue).name = "bash")
    => _get_tool_directory(Head(queue)) = bash_cwd(Head(queue))

\* the commands of the bash calls the gate is asked about
Commands ==
  {<<>>, <<"ls">>, <<"ls", ";", "rm", "x">>, <<"cat", "f">>, <<"[">>,
   <<"rm">>, <<"rm", "ls">>, <<"sudo", "ls">>}

\* a bash call with the given command
Bash(command) == ToolCall("bash", [NoArgs EXCEPT !.command = command])

\* C19: a bash call whose first token is in the allow-list requires no
\* confirmation in any mode, whatever follows the token, and the loop
\* starts it without a prompt whether or not the directory is approved; a
\* bash call with another first token or an empty command requires
\* confirmation in every mode but AUTO_ACCEPT.
SafeFirstTokenSkipsConfirmation ==
  [][/\ \A command \in Commands : \A mode \in PermissionMode :
          IF command # <<>> /\ Head(command) \in safe_commands
            THEN ~_requires_confirmation(mode, Bash(command))
            ELSE _requires_confirmation(mode, Bash(command)) <=> mode # AUTO_ACCEPT
     /\ (/\ pc = "tools"
         /\ queue # <<>>
         /\ (pc' # pc \/ queue' # queue)
         /\ _interrupt_type = NONE
         /\ ~plan_mode_active
         /\ Head(queue).name = "bash")
          => IF first_word(Head(queue).arguments.command) \in safe_commands
               THEN pc' = "exec" /\ prompts' = prompts
               ELSE (_current # AUTO_ACCEPT /\ prompts' = prompts)
                      => _is_directory_approved(approved_directories,
                                                _get_tool_directory(Head(queue)))
    ]_vars

\* the rm before it was prompted for and declined; ls chained with rm is
\* executing without a prompt of its own, no directory approved
SafeFirstTokenSkipsConfirmationWitness ==
  /\ pc = "exec"
  /\ Head(queue) = BashChain
  /\ _current = NORMAL
  /\ prompts = 1
  /\ messages[Len(messages)] = DeclinedMsg
  /\ approved_directories = {}

\* C20: an execution that fails ends with one tool message that starts
\* with "Error: " appended to the conversation, and the loop goes on with
\* the next queued call or the next model request.
ToolFailureBecomesMessage ==
  [][(pc = "exec" /\ ~ToolSucceeds(Head(queue)) /\ pc' # pc)
       => /\ messages' = Append(messages, ErrorMsg)
          /\ queue' = Tail(queue)
          /\ pc' = AfterCall(Tail(queue))
    ]_vars

\* the accumulated content holds the provider's error chunk
HasError(content) == \E i \in 1..Len(content) : content[i].k = "err"

\* C21: when the model request fails with a provider error, the stream that
\* delivered the error chunk ends the turn: the loop goes to no tool and to
\* no further request.
ProviderErrorEndsTurn ==
  [][(pc = "stream" /\ stream = <<>> /\ HasError(response_content) /\ pc' # pc)
       => (pc' = "idle" /\ executed' = executed /\ requests' = requests)]_vars

\* the stream is over and left content but no tool call (agent.py 317-319)
FinalContent ==
  /\ pc = "stream" /\ stream = <<>> /\ pc' # pc
  /\ Resolved(response_content, tool_calls).calls = <<>>
  /\ Resolved(response_content, tool_calls).text # <<>>

\* the retry path was taken: the partial content and the corrective message
\* are appended and the loop goes on
RetryTaken ==
  /\ messages' = messages \o <<Message("assistant", response_content, <<>>), CorrectiveMsg>>
  /\ pc' = "loop"

\* the content was appended as the final assistant message and the turn ended
FinalTaken ==
  /\ messages' = Append(messages, Message("assistant", response_content, <<>>))
  /\ pc' = "idle"

\* C22 as stated: the retry path is taken if and only if the content starts
\* with an opening brace, has tool-call-shaped keys and does not end with a
\* closing brace; every other non-empty content is final.
RetryIffTruncatedJson ==
  [][FinalContent =>
       IF /\ StartsWithBrace(response_content)
          /\ HasNameKey(response_content)
          /\ ~EndsWithBrace(response_content)
         THEN RetryTaken ELSE FinalTaken]_vars

\* C22, amended: the retry path is taken if and only if the content starts
\* with an opening brace and either has tool-call-shaped keys without ending
\* with a closing brace, or is shorter than 100 characters; every other
\* non-empty content is final.
RetryIffTruncatedOrShort ==
  [][FinalContent =>
       IF /\ StartsWithBrace(response_content)
          /\ \/ HasNameKey(response_content) /\ ~EndsWithBrace(response_content)
             \/ StrLen(response_content) < 100
         THEN RetryTaken ELSE FinalTaken]_vars

\* a short JSON object that closes was answered with the corrective message
RetryIffTruncatedOrShortWitness ==
  /\ pc = "loop"
  /\ Len(messages) >= 3
  /\ messages[Len(messages)] = CorrectiveMsg
  /\ messages[Len(messages) - 1] = Message("assistant", <<Curly>>, <<>>)

\* the truncation retries of the current turn: each appended one corrective
\* user message (agent.py 343-350)
Retries ==
  Cardinality({i \in (turn_start + 1)..Len(messages) : messages[i] = CorrectiveMsg})

\* C23: truncation retries are bounded by the iteration cap. Every model
\* request of a turn consumes one iteration and there are at most
\* max_iterations of them; a retry follows a request, and while every
\* request of the turn has ended in a retry the turn has appended exactly two
\* messages per request; after max_iterations retries no request is open and
\* the loop condition fails, so the turn ends.
TruncationRetriesBounded ==
  /\ requests = iteration
  /\ requests <= max_iterations
  /\ Retries <= requests
  /\ Retries = requests => Len(messages) = turn_start + 2 * requests
  /\ Retries = max_iterations =>
        /\ pc \in {"loop", "idle"}
        /\ ~LoopContinues(iteration, interrupted)

\* a turn of max_iterations truncated responses has ended at the cap
TruncationRetriesBoundedWitness ==
  /\ pc = "idle"
  /\ outcome = "cap"
  /\ llm = Truncated(WriteCall)
  /\ Retries = max_iterations
  /\ requests = max_iterations
  /\ Len(messages) = turn_start + 2 * max_iterations

\* two argument mappings are the same mapping: the same keys with the same
\* values, whatever the order the keys of a nested dict were written in
same_arguments(a, b) ==
  /\ [a EXCEPT !.todos = <<>>] = [b EXCEPT !.todos = <<>>]
  /\ {a.todos[i] : i \in 1..Len(a.todos)} = {b.todos[i] : i \in 1..Len(b.todos)}

\* two calls with the same name and the same argument mapping
SameCall(x, y) == x.name = y.name /\ same_arguments(x.arguments, y.arguments)

RECURSIVE FirstOccurrences(_, _)
\* the calls of tcs, in their order, that are the first of their group of
\* identical calls
FirstOccurrences(tcs, kept) ==
  IF tcs = <<>> THEN kept
  ELSE IF \E k \in 1..Len(kept) : SameCall(kept[k], Head(tcs))
    THEN FirstOccurrences(Tail(tcs), kept)
  ELSE FirstOccurrences(Tail(tcs), Append(kept, Head(tcs)))

\* C24: after deduplication no two of the calls the iteration goes on to
\* handle have the same name and the same argument mapping; the calls kept
\* are the first occurrences of each group of identical calls, in the order
\* they had.
DedupKeepsFirstOfIdentical ==
  [][(pc = "stream" /\ pc' = "tools") =>
       /\ \A i, j \in 1..Len(queue') : i < j => ~SameCall(queue'[i], queue'[j])
       /\ queue' = FirstOccurrences(RawCalls(response_content, tool_calls), <<>>)]_vars

\* where the well-formed {"name": N, "arguments": A} object that starts at
\* fragment i of the text ends; 0 if none starts there
ObjectEnd(text, i) ==
  IF text[i].k = "obj" THEN i
  ELSE IF text[i].k = "open" THEN CloseAfter(text, i + 1)
  ELSE 0

\* fragment j of the text is part of a well-formed object
InObject(text, j) ==
  \E i \in 1..j : ObjectEnd(text, i) # 0 /\ j <= ObjectEnd(text, i)

\* the text contains a well-formed object
HasObject(text) == \E i \in 1..Len(text) : ObjectEnd(text, i) # 0

RECURSIVE ObjectsFrom(_, _)
\* the invocations (N, A) the well-formed objects of the text spell, in the
\* order of the text
ObjectsFrom(text, i) ==
  IF i > Len(text) THEN <<>>
  ELSE IF ObjectEnd(text, i) # 0 THEN <<text[i].c>> \o ObjectsFrom(text, i + 1)
  ELSE ObjectsFrom(text, i + 1)

RECURSIVE OutsideFrom(_, _)
\* the text with exactly the well-formed objects removed
OutsideFrom(text, i) ==
  IF i > Len(text) THEN <<>>
  ELSE IF InObject(text, i) THEN OutsideFrom(text, i + 1)
  ELSE <<text[i]>> \o OutsideFrom(text, i + 1)

\* extract_json_tool_call was called on a text with a well-formed object
ExtractedFromObject ==
  called.fn = "extract_json_tool_call" /\ HasObject(called.content)

\* C25 as stated: for a text containing a well-formed object,
\* extract_json_tool_call returns exactly one invocation (N, A) for each
\* such object and a residual equal to the input with exactly those
\* substrings removed.
ExtractRemovesExactlyObject ==
  ExtractedFromObject =>
    /\ returned.calls = ObjectsFrom(called.content, 1)
    /\ returned.remaining = OutsideFrom(called.content, 1)

\* C25, amended: for a text containing a well-formed object,
\* extract_json_tool_call returns exactly one invocation (N, A) for each
\* such object, in the order of the text, and a residual equal to the input
\* with exactly those substrings removed and then stripped of leading and
\* trailing whitespace.
ExtractRemovesObjectAndStrips ==
  ExtractedFromObject =>
    /\ returned.calls = ObjectsFrom(called.content, 1)
    /\ returned.remaining = Strip(OutsideFrom(called.content, 1))

\* prose, a blank and an object: the call is returned, the prose is left
\* without the blank
ExtractRemovesObjectAndStripsWitness ==
  /\ called = [fn |-> "extract_json_tool_call",
               content |-> <<Txt, Ws, Tok("obj", WriteCall)>>]
  /\ returned = [remaining |-> <<Txt>>, calls |-> <<WriteCall>>]

RECURSIVE BackslashRun(_, _)
\* the number of backslashes that stand in a row just before position k
BackslashRun(text, k) ==
  IF k > 1 /\ text[k - 1] = "b" THEN 1 + BackslashRun(text, k - 1) ELSE 0

RECURSIVE InLiteral(_, _, _)
\* position k of the text lies inside a string literal, for a reader that
\* starts outside of one at position start: a quote opens a literal, and
\* the next quote that is not preceded by an odd number of backslashes
\* closes it
InLiteral(text, start, k) ==
  IF k <= start THEN FALSE
  ELSE LET before == InLiteral(text, start, k - 1)
       IN IF text[k - 1] = "q" /\ (~before \/ BackslashRun(text, k - 1) % 2 = 0)
            THEN ~before
            ELSE before

\* the braces open at position j, counted outside string literals
Depth(text, start, j) ==
  Cardinality({i \in start..j : text[i] = "{" /\ ~InLiteral(text, start, i)})
    - Cardinality({i \in start..j : text[i] = "}" /\ ~InLiteral(text, start, i)})

\* position j holds the closing brace that balances the brace at start
Balances(text, start, j) ==
  /\ text[j] = "}"
  /\ ~InLiteral(text, start, j)
  /\ Depth(text, start, j) = 0
  /\ \A i \in start..(j - 1) : Depth(text, start, i) > 0

\* C26: the scan for a balanced object that starts at an opening brace ends
\* exactly at the closing brace that balances it outside string literals,
\* and finds nothing when there is none: braces inside strings, and quotes
\* preceded by a backslash inside strings, neither change the depth nor end
\* the match.
ScanEndsAtBalancingBrace ==
  called.fn = "find_balanced_json" =>
    LET text == called.text
        start == called.start_idx
    IN IF start <= Len(text) /\ text[start] = "{"
         THEN /\ returned.found <=> \E j \in start..Len(text) : Balances(text, start, j)
              /\ returned.found =>
                    /\ Balances(text, start, returned.end_idx - 1)
                    /\ returned.json_str = SubSeq(text, start, returned.end_idx - 1)
         ELSE returned = NoJson

\* an object whose string holds an escaped quote and a closing brace is
\* matched up to its own closing brace
ScanEndsAtBalancingBraceWitness ==
  /\ called = [fn |-> "find_balanced_json",
               text |-> <<"{", "q", "b", "q", "}", "q", "}">>, start_idx |-> 1]
  /\ returned.found
  /\ returned.end_idx = 8

\* the only candidates for a tool call in the content are objects whose
\* braces are not balanced by the end of the text
OnlyUnbalanced(content) ==
  /\ \E i \in 1..Len(content) : content[i].k = "open"
  /\ \A i \in 1..Len(content) : content[i].k \notin {"close", "obj", "rep", "fn"}

\* C27: a tool-call object whose braces are not balanced by the end of the
\* text is not returned as an invocation: when it is the only candidate and
\* the stream brought no native call, the extraction returns the text
\* unchanged with an empty call list, no call is queued, and the loop treats
\* the unchanged text as content: it takes the retry path or appends it as
\* the final answer.
UnbalancedObjectIsContent ==
  [][(/\ pc = "stream" /\ stream = <<>> /\ pc' # pc
      /\ tool_calls = <<>>
      /\ OnlyUnbalanced(response_content))
       => /\ extract_json_tool_call(response_content)
               = [remaining |-> response_content, calls |-> <<>>]
          /\ pc' # "tools"
          /\ queue' = <<>>
          /\ RetryTaken \/ FinalTaken]_vars

\* prose followed by a cut-off object was appended whole as the final answer
UnbalancedObjectIsContentWitness ==
  /\ pc = "idle"
  /\ outcome = "final"
  /\ messages[Len(messages)] =
       Message("assistant", <<Txt, Tok("open", WriteCall)>>, <<>>)

\* C28: should_summarize is true if and only if the used token count is
\* strictly greater than threshold times max tokens (three quarters of
\* them); with max = 100, used = 76 gives true and used = 75 gives false.
SummarizeIffAboveThreshold ==
  called.fn = "should_summarize" =>
    /\ returned.value <=>
          called.used * summarize_threshold.den
            > summarize_threshold.num * called.max_tokens
    /\ called.max_tokens = 100 /\ called.used = 76 => returned.value
    /\ called.max_tokens = 100 /\ called.used = 75 => ~returned.value

\* the boundary: 75 tokens used of 100 do not call for a summary
SummarizeIffAboveThresholdWitness ==
  /\ called = [fn |-> "should_summarize", max_tokens |-> 100, used |-> 75]
  /\ returned = [value |-> FALSE]

\* summarize_conversation was called on a conversation
Summarized == called.fn = "summarize_conversation"

\* C29: summarize_conversation with keep_recent = K returns the conversation
\* unchanged, and sends no summarization request, when it has at most
\* 1 + 2K + 2 messages; otherwise it returns the first message, one summary
\* message and the last 2K messages, these as they were and in their order.
CompactionKeepsSystemAndRecent ==
  Summarized =>
    LET ms == called.messages
        K == called.keep_recent
        n == Len(called.messages)
    IN IF n <= 1 + 2 * K + 2
         THEN returned.messages = ms /\ ~returned.requested
         ELSE /\ returned.requested
              /\ returned.messages =
                   <<ms[1], SummaryMsg>> \o [i \in 1..(2 * K) |-> ms[n - 2 * K + i]]

\* C30: after any sequence of turns (with compactions, truncation retries,
\* interrupted turns and tool errors) and clear_history calls, the
\* conversation is not empty and its first element is the system message
\* that holds the agent's system prompt.
SystemMessageFirst ==
  /\ Len(messages) >= 1
  /\ messages[1] = SystemMsg

\* a turn began on a compacted conversation: the system message, the
\* summary, the eight latest messages and the new user message
SystemMessageFirstWitness ==
  /\ pc = "loop"
  /\ turn = 2
  /\ Len(messages) = 2 + 2 * keep_recent + 1
  /\ messages[1] = SystemMsg
  /\ messages[2] = SummaryMsg

\* where the tool-call object that starts at fragment i of the content ends;
\* 0 if none starts there
CallObjectEnd(content, i) ==
  CASE content[i].k \in {"obj", "rep"} -> i
    [] content[i].k = "open" -> CloseAfter(content, i + 1)
    [] Joined(content, i) -> i + 1
    [] OTHER -> 0

\* fragment j of the content is part of a tool call the extraction takes out
\* of it: of a {"name": N, "arguments": A} object or, when the content has
\* none, of a call-style invocation
PartOfCall(content, j) ==
  IF \E i \in 1..Len(content) : CallObjectEnd(content, i) # 0
    THEN \E i \in 1..j : CallObjectEnd(content, i) # 0 /\ j <= CallObjectEnd(content, i)
    ELSE content[j].k = "fn"

\* C31: within one iteration no fragment that belongs to a structured tool
\* call is rendered: when the stream is over and the iteration extracts its
\* calls from the accumulated content, no fragment that is part of an
\* extracted tool call was passed to the streaming renderer, however the
\* text was cut into fragments.
ToolCallNeverRendered ==
  (pc = "stream" /\ stream = <<>> /\ tool_calls = <<>>) =>
    \A j \in 1..Len(response_content) :
      PartOfCall(response_content, j) => ~streamed[j]

\* C32: an interrupt signalled while a tool is executing does not cancel the
\* execution: the step that ends the execution appends the tool-result
\* message and goes on to the next queued call or to the next iteration
\* without marking the turn interrupted; the interrupt takes effect at the
\* next poll, before a queued call or before a fragment, which ends the turn
\* without starting an execution or appending a message.
InterruptSparesExecution ==
  [][/\ (pc = "exec" /\ PollStops(_interrupt_type) /\ pc' # "exec") =>
          /\ Len(messages') = Len(messages) + 1
          /\ messages'[Len(messages')].role = "tool"
          /\ pc' = AfterCall(Tail(queue))
          /\ queue' = Tail(queue)
          /\ ~interrupted'
     /\ (pc \in {"tools", "stream"} /\ poll' # poll /\ PollStops(poll')) =>
          /\ interrupted'
          /\ pc' = "idle"
          /\ executed' = executed
          /\ messages' = messages
    ]_vars

\* the tool messages the loop can append for one call: the block notice when
\* plan mode does not allow the tool, else the refusal (for a call that
\* requires confirmation) or the result of the execution
ToolMessagesFor(tc) ==
  IF ~is_tool_allowed(tc.name) THEN {BlockedMsg}
  ELSE {IF ToolSucceeds(tc) THEN OutputMsg ELSE ErrorMsg} \cup
       (IF _requires_confirmation(_current, tc) THEN {DeclinedMsg} ELSE {})

\* the conversation ends with an assistant message carrying the calls and
\* one tool message for each of them, in their order
EndsWithResults(ms, calls) ==
  LET n == Len(calls)
      base == Len(ms) - n
  IN /\ base >= 1
     /\ ms[base].role = "assistant"
     /\ ms[base].tool_calls = calls
     /\ \A i \in 1..n : ms[base + i] \in ToolMessagesFor(calls[i])

\* C33: an iteration that has tool calls appends one assistant message
\* carrying the deduplicated calls; unless it is interrupted, it ends with
\* one tool message per call appended after it, in call order (the block
\* notice, the refusal or the execution result), and goes on to the next
\* model request, which is issued on a conversation that ends with them.
ToolIterationAppendsResults ==
  [][/\ (pc = "stream" /\ pc' = "tools") =>
          /\ tool_calls' = Dedup(RawCalls(response_content, tool_calls), {})
          /\ Len(messages') = Len(messages) + 1
          /\ messages'[Len(messages')].role = "assistant"
          /\ messages'[Len(messages')].tool_calls = tool_calls'
     /\ (pc \in {"tools", "exec"} /\ pc' \notin {"tools", "exec"} /\ ~interrupted') =>
          /\ pc' = "loop"
          /\ EndsWithResults(messages', tool_calls)
     /\ (pc = "loop" /\ pc' = "stream" /\ tool_calls # <<>>) =>
          EndsWithResults(messages, tool_calls)
    ]_vars

\* C34: tool-call resolution is an ordered two-stage pipeline. When the
\* stream returned a native tool call, the content is left as it is (the
\* text extraction is not run) and the calls the iteration handles are the
\* deduplicated native calls; only when the native list is empty are the
\* calls those extracted from the accumulated content, which then becomes
\* the residual.
NativeCallsFirst ==
  [][(pc = "stream" /\ stream = <<>> /\ pc' # pc) =>
       IF tool_calls # <<>>
         THEN /\ pc' = "tools"
              /\ queue' = Dedup(tool_calls, {})
              /\ response_content' = response_content
              /\ messages' = Append(messages, Message("assistant", response_content, queue'))
         ELSE LET ex == extract_json_tool_call(response_content)
              IN IF response_content # <<>> /\ ex.calls # <<>>
                   THEN /\ pc' = "tools"
                        /\ queue' = Dedup(ex.calls, {})
                        /\ response_content' = ex.remaining
                   ELSE /\ pc' # "tools"
                        /\ queue' = <<>>
    ]_vars

\* the content holds a well-formed write_file object and the stream brought
\* a native read_file call: the native call alone is queued and the content
\* is kept whole
NativeCallsFirstWitness ==
  /\ pc = "tools"
  /\ response_content = <<Tok("obj", WriteCall)>>
  /\ queue = <<ReadCall>>
  /\ messages[Len(messages)] =
       Message("assistant", <<Tok("obj", WriteCall)>>, <<ReadCall>>)

CreatePlanToolValidates ==
  [][\A steps \in StepDictLists :
       ExecuteCreatePlanWith(steps) =>
         IF \/ Len(steps) = 0
            \/ \E i \in 1..Len(steps) :
                 \/ "description" \notin DOMAIN steps[i]
                 \/ steps[i].description = ""
           THEN /\ ~ret'.value
                /\ current_plan' = current_plan
                /\ plan_mode_active' = plan_mode_active
           ELSE ret'.value
    ]_vars

\* plan mode is on and a plan is pending; a create_plan call was refused
\* and the plan is still the current one
CreatePlanToolValidatesWitness ==
  /\ ret = Ret("CreatePlanTool.execute", "", FALSE)
  /\ plan_mode_active
  /\ current_plan.status = PENDING_APPROVAL
  /\ Len(current_plan.steps) = 2

\* the conversation ms is the beginning of the conversation ns
IsPrefix(ms, ns) == Len(ms) <= Len(ns) /\ SubSeq(ns, 1, Len(ms)) = ms

\* C37: compaction is attempted only in the step that starts a turn, before
\* the user message is appended, and at most once per turn: the turn starts
\* on the conversation as it was, or on its compaction when should_summarize
\* held, with the user message appended; every later step of the turn leaves
\* the conversation as it is or appends to it, however large it has grown.
CompactionOnlyAtTurnStart ==
  [][/\ (pc = "idle" /\ pc' = "loop") =>
          LET n == Len(messages)
              before == SubSeq(messages', 1, Len(messages') - 1)
          IN /\ messages'[Len(messages')].role = "user"
             /\ IF should_summarize(messages) /\ n > 1 + 2 * keep_recent + 2
                  THEN before = <<messages[1], SummaryMsg>> \o
                         SubSeq(messages, n - 2 * keep_recent + 1, n)
                  ELSE before = messages
     /\ pc # "idle" => IsPrefix(messages, messages')
    ]_vars

\* the second turn began with a compaction; the conversation is above the
\* threshold again and a further iteration of the turn has appended to it
CompactionOnlyAtTurnStartWitness ==
  /\ turn = 2
  /\ pc = "loop"
  /\ iteration >= 1
  /\ messages[2] = SummaryMsg
  /\ should_summarize(messages)
  /\ Len(messages) > turn_start

\* message i of the conversation is a tool message that follows an assistant
\* message carrying tool calls, with only tool messages in between
Paired(ms, i) ==
  \E j \in 1..(i - 1) :
    /\ ms[j].role = "assistant"
    /\ ms[j].tool_calls # <<>>
    /\ \A k \in (j + 1)..(i - 1) : ms[k].role = "tool"

\* C38: in every reachable conversation each tool message is preceded by an
\* assistant message carrying tool calls, with only tool messages in
\* between, also after turns that start with a compaction.
ToolMessagesPaired ==
  \A i \in 1..Len(messages) : messages[i].role = "tool" => Paired(messages, i)

RECURSIVE CallStyleFrom(_, _)
\* the invocations the call-style fragments N {...} of the text spell, in
\* the order of the text
CallStyleFrom(text, i) ==
  IF i > Len(text) THEN <<>>
  ELSE IF text[i].k = "fn" THEN <<text[i].c>> \o CallStyleFrom(text, i + 1)
  ELSE CallStyleFrom(text, i + 1)

\* C39: extract_json_tool_call returns its invocations in the order in which
\* they occur in the text: those of the {"name": N, "arguments": A} objects
\* when the text has one, else those of the call-style shapes.
ExtractKeepsTextOrder ==
  called.fn = "extract_json_tool_call" =>
    returned.calls = IF HasObject(called.content)
                       THEN ObjectsFrom(called.content, 1)
                       ELSE CallStyleFrom(called.content, 1)

\* C40: after any sequence of PlanManager operations the current plan is
\* none, or its status is PENDING_APPROVAL or APPROVED; DRAFTING, EXECUTING,
\* COMPLETED and REJECTED are never the status of the current plan.
CurrentPlanPendingOrApproved ==
  \/ current_plan = NoPlan
  \/ /\ current_plan.status \in {PENDING_APPROVAL, APPROVED}
     /\ current_plan.status \notin {DRAFTING, EXECUTING, COMPLETED, REJECTED}

\* every step of the approved plan was marked completed: the plan is still
\* APPROVED
CurrentPlanPendingOrApprovedWitness ==
  /\ ret = Ret("mark_step_completed", "", TRUE)
  /\ current_plan.status = APPROVED
  /\ Len(current_plan.steps) = MaxSteps
  /\ \A i \in 1..Len(current_plan.steps) : current_plan.steps[i].status = "completed"

====
